---- MODULE Spec2Model ----
(***************************************************************************)
(* Verification model of lyfe05/highlight-api.                             *)
(*                                                                         *)
(*   Spec      the in-memory cache controller of src/main.py: the          *)
(*             scheduler thread, the /refresh background tasks and a       *)
(*             /matches reader, interleaved statement by statement.        *)
(*   SpecLive  the same controller without the /matches reader, under     *)
(*             fair scheduling and a source site that recovers.            *)
(*   SpecAgg   the aggregator process_matches_to_json of src/scraper.py,   *)
(*             applied to bounded lists of resolved fixtures.              *)
(*   SpecFile  the file-backed variant: src/scheduler.py driving           *)
(*             src/app/scraper.py, served by src/app/main.py.              *)
(*   SpecLogo  find_logo_url of src/scraper.py, applied to team names,     *)
(*             catalogs and manual overrides.                              *)
(*   SpecList  find_matches_from_html of src/scraper.py, applied to        *)
(*             listing documents.                                          *)
(*   SpecResolve  process_match of src/scraper.py under every outcome of   *)
(*             the detail-page and embed-page fetches.                     *)
(***************************************************************************)
EXTENDS Integers, Sequences, FiniteSets, TLC

VARIABLES
    \* --- src/main.py ---
    now,            \* time.time(), in seconds
    data,           \* cache.data
    last_updated,   \* cache.last_updated (0 = never)
    is_updating,    \* cache.is_updating
    lock,           \* cache.lock: the thread holding it, or NoThread
    pc,             \* position of the scheduler thread and of each worker
    calls,          \* number of run_scraping_job calls made so far
    myCall,         \* per thread: index of the call it is executing
    matches,        \* per thread: local matches
    matches_data,   \* per thread: local matches_data
    final_json,     \* per thread: local final_json
    wakeAt,         \* end of the scheduler's current time.sleep(60)
    refreshResp,    \* status of the last /refresh response
    rpc,            \* position of the /matches request handler
    snap,           \* the dictionary cache.get() is building / has returned
    resp,           \* status of the last /matches response (200: the body is snap)
    dataCall,       \* history: the call whose commit wrote cache.data
    stampCall,      \* history: the call whose commit wrote cache.last_updated
    everPopulated,  \* history: some commit has stored a non-empty cache.data
    reqLate,        \* history: the current /matches request began after such a commit
    \* --- src/scraper.py: process_matches_to_json ---
    aggPc,          \* position in process_matches_to_json
    aggIn,          \* matches_data, the part not yet grouped
    groups,         \* the dictionary groups, in insertion order
    result,         \* the list result
    aggAll,         \* history: matches_data as passed in
    \* --- file-backed variant ---
    fnow,           \* time.time(), in seconds
    fpc,            \* position of the scheduler thread of src/scheduler.py
    fwake,          \* end of the scheduler's current time.sleep(1200)
    fcalls,         \* number of run_scraping_job calls made so far
    fdata,          \* local matches_data of run_scraping_job
    fstamp,         \* local cache_data['timestamp'] of run_scraping_job
    file,           \* matches_cache.json
    fresp,          \* the last /matches response
    fwritten,       \* history: some pass has written the cache file
    freqLate,       \* history: the last /matches request came after such a write
    \* --- src/scraper.py: find_logo_url ---
    logoPc,         \* position of the caller of find_logo_url
    team_name,      \* argument team_name
    logos,          \* argument logos: the catalog entries in insertion order
    manual_logos,   \* argument manual_logos
    missing_teams,  \* argument missing_teams
    logoOut,        \* the value find_logo_url returned, with the stage that produced it
    \* --- src/scraper.py: find_matches_from_html ---
    listPc,         \* position in find_matches_from_html
    containers,     \* the "port" containers of the document not yet visited
    found,          \* the list matches
    \* --- src/scraper.py: process_match ---
    pmPc,           \* position in process_match
    match,          \* argument match
    net,            \* what fetch does for the detail URL and for the embed URL
    m_html,         \* local m_html
    home_score,     \* local home_score
    away_score,     \* local away_score
    embed,          \* local embed
    pmOut,          \* the dictionary process_match returned
    \* --- the source site ---
    feed            \* what the site serves from now on: "any", "streams", "fixtures"

mainVars == << now, data, last_updated, is_updating, lock, pc, calls, myCall,
               matches, matches_data, final_json, wakeAt, refreshResp,
               rpc, snap, resp, dataCall, stampCall, everPopulated, reqLate >>

aggVars == << aggPc, aggIn, groups, result, aggAll >>

fileVars == << fnow, fpc, fwake, fcalls, fdata, fstamp, file, fresp, fwritten, freqLate >>

logoVars == << logoPc, team_name, logos, manual_logos, missing_teams, logoOut >>

listVars == << listPc, containers, found >>

resolveVars == << pmPc, match, net, m_html, home_score, away_score, embed, pmOut >>

siteVars == << feed >>

vars == << mainVars, aggVars, fileVars, logoVars, listVars, resolveVars, siteVars >>

notMainVars    == << aggVars, fileVars, logoVars, listVars, resolveVars, siteVars >>
notAggVars     == << mainVars, fileVars, logoVars, listVars, resolveVars, siteVars >>
notFileVars    == << mainVars, aggVars, logoVars, listVars, resolveVars, siteVars >>
notLogoVars    == << mainVars, aggVars, fileVars, listVars, resolveVars, siteVars >>
notListVars    == << mainVars, aggVars, fileVars, logoVars, resolveVars, siteVars >>
notResolveVars == << mainVars, aggVars, fileVars, logoVars, listVars, siteVars >>

-----------------------------------------------------------------------------
(* Bounds *)

NumWorkers == 1     \* thread-pool workers running /refresh background tasks
MaxCalls   == 2     \* run_scraping_job calls in one behaviour
MaxMatches == 1     \* fixtures on one listing page
MaxSteps   == 3     \* clock advances in one behaviour
MaxFixtures == 2    \* resolved fixtures passed to the aggregator
MaxUrls    == 2     \* stream URLs of one resolved fixture
MaxLogos   == 2     \* entries of the logo catalog
\* containers of a listing document
MaxContainers == 2
\* hls assignments on an embed page
MaxStmts == 2

-----------------------------------------------------------------------------
(* Program constants *)

CACHE_DURATION == 1200
CHECK_INTERVAL == 60
SCRAPE_INTERVAL == 1200

TimeStep == CACHE_DURATION \div 2
\* time.time() is far beyond the TTL when the process starts
BootTime == CACHE_DURATION + TimeStep
EndTime  == BootTime + MaxSteps * TimeStep

NoUrl    == << >>   \* a falsy m3u8 (None)
NoTime   == 0       \* None in place of a time
NoFile   == [ exists |-> FALSE, complete |-> FALSE, timestamp |-> 0, matches |-> << >> ]
NoThread == -1
Reader   == NumWorkers + 1
Sched    == 0
Workers  == 1..NumWorkers
Threads  == {Sched} \cup Workers

-----------------------------------------------------------------------------
(* Strings as sequences of characters *)

\* needle in hay (Python's substring test)
Contains(hay, needle) ==
    \E i \in 1..(Len(hay) - Len(needle) + 1) :
        SubSeq(hay, i, i + Len(needle) - 1) = needle

\* index of the first occurrence of needle in hay (0 when absent)
FindFirst(hay, needle) ==
    IF Contains(hay, needle)
    THEN CHOOSE i \in 1..(Len(hay) - Len(needle) + 1) :
            /\ SubSeq(hay, i, i + Len(needle) - 1) = needle
            /\ \A j \in 1..(i - 1) : SubSeq(hay, j, j + Len(needle) - 1) # needle
    ELSE 0

RECURSIVE LStrip(_)
LStrip(s) == IF s # << >> /\ Head(s) = " " THEN LStrip(Tail(s)) ELSE s

RECURSIVE RStrip(_)
RStrip(s) == IF s # << >> /\ s[Len(s)] = " " THEN RStrip(SubSeq(s, 1, Len(s) - 1)) ELSE s

\* str.strip()
Strip(s) == RStrip(LStrip(s))

VSep == << " ", "v", " " >>

TitleAB   == << "A", " ", "v", " ", "B" >>
TitleNews == << "N" >>

-----------------------------------------------------------------------------
(* src/main.py: the pipeline of one refresh pass *)

MainTitles == { TitleAB, TitleNews }
StreamU    == << "u" >>
Referer    == << "|", "R" >>

RECURSIVE SeqsUpTo(_, _)
SeqsUpTo(S, n) ==
    IF n = 0 THEN { << >> }
    ELSE LET shorter == SeqsUpTo(S, n - 1)
         IN  shorter \cup { Append(s, x) : s \in { q \in shorter : Len(q) = n - 1 }, x \in S }

\* what find_matches_from_html can return
MatchLists == SeqsUpTo(MainTitles, MaxMatches)

\* what the process_match loop can return for a list of matches
ResolvedLists(ms) ==
    { [ i \in 1..Len(ms) |-> [ title |-> ms[i], m3u8 |-> f[i] ] ] :
        f \in [ 1..Len(ms) -> { NoUrl, StreamU } ] }

\* the titles of match_groups in insertion order
RECURSIVE GroupTitles(_)
GroupTitles(md) ==
    IF md = << >> THEN << >>
    ELSE LET rest == GroupTitles(SubSeq(md, 1, Len(md) - 1))
             m    == md[Len(md)]
         IN  IF m.m3u8 = NoUrl \/ \E i \in 1..Len(rest) : rest[i] = m.title
             THEN rest
             ELSE Append(rest, m.title)

\* match_groups[title]['stream_urls']
RECURSIVE GroupStreams(_, _)
GroupStreams(md, title) ==
    IF md = << >> THEN << >>
    ELSE LET m    == Head(md)
             rest == GroupStreams(Tail(md), title)
         IN  IF m.m3u8 # NoUrl /\ m.title = title
             THEN << m.m3u8 \o Referer >> \o rest
             ELSE rest

MainRecord(md, title) ==
    LET k == FindFirst(title, VSep)
    IN  [ home        |-> Strip(SubSeq(title, 1, k - 1)),
          away        |-> Strip(SubSeq(title, k + Len(VSep), Len(title))),
          stream_urls |-> GroupStreams(md, title) ]

RECURSIVE MainEmit(_, _)
MainEmit(md, titles) ==
    IF titles = << >> THEN << >>
    ELSE IF Contains(Head(titles), VSep)
         THEN << MainRecord(md, Head(titles)) >> \o MainEmit(md, Tail(titles))
         ELSE MainEmit(md, Tail(titles))

process_matches_to_json_main(md) == MainEmit(md, GroupTitles(md))

-----------------------------------------------------------------------------
(* src/main.py: MatchCache and run_scraping_job *)

\* a staleness test that takes a cache that was never written for a fresh one
is_stale_UnlessNeverWritten ==
    last_updated # 0 /\ (now - last_updated) > CACHE_DURATION

\* MatchCache.is_stale
is_stale == (now - last_updated) > CACHE_DURATION

PassLabels == { "setflag", "fetch", "list", "resolve",
                "set_lock", "set_data", "set_stamp", "set_clear", "set_unlock",
                "abort" }

\* where a thread goes when run_scraping_job returns
Home(t) == IF t = Sched THEN "sleep" ELSE "idle"

Return(t) ==
    /\ pc' = [pc EXCEPT ![t] = Home(t)]
    /\ myCall' = [myCall EXCEPT ![t] = 0]
    /\ matches' = [matches EXCEPT ![t] = << >>]
    /\ matches_data' = [matches_data EXCEPT ![t] = << >>]
    /\ final_json' = [final_json EXCEPT ![t] = << >>]
    /\ wakeAt' = IF t = Sched THEN now + CHECK_INTERVAL ELSE wakeAt

Goto(t, l) == pc' = [pc EXCEPT ![t] = l]

Call(t) ==
    /\ calls < MaxCalls
    /\ calls' = calls + 1
    /\ myCall' = [myCall EXCEPT ![t] = calls + 1]
    /\ Goto(t, "check")

\* schedule_scraping: "Run immediately on startup"
SchedBoot ==
    /\ pc[Sched] = "boot"
    /\ Call(Sched)
    /\ UNCHANGED << now, data, last_updated, is_updating, lock, matches,
                    matches_data, final_json, wakeAt, refreshResp, rpc, snap, resp,
                    dataCall, stampCall, everPopulated, reqLate >>
    /\ UNCHANGED notMainVars

\* schedule_scraping: time.sleep(60) is over and cache.is_stale() holds
SchedStale ==
    /\ pc[Sched] = "sleep"
    /\ now >= wakeAt
    /\ is_stale
    /\ Call(Sched)
    /\ UNCHANGED << now, data, last_updated, is_updating, lock, matches,
                    matches_data, final_json, wakeAt, refreshResp, rpc, snap, resp,
                    dataCall, stampCall, everPopulated, reqLate >>
    /\ UNCHANGED notMainVars

\* schedule_scraping: time.sleep(60) is over and the cache is fresh
SchedFresh ==
    /\ pc[Sched] = "sleep"
    /\ now >= wakeAt
    /\ ~is_stale
    /\ wakeAt' = now + CHECK_INTERVAL
    /\ UNCHANGED << now, data, last_updated, is_updating, lock, pc, calls, myCall,
                    matches, matches_data, final_json, refreshResp, rpc,
                    snap, resp, dataCall, stampCall, everPopulated, reqLate >>
    /\ UNCHANGED notMainVars

\* force_refresh while cache.is_updating is set
RefreshPending ==
    /\ is_updating
    /\ refreshResp' = "pending"
    /\ refreshResp # "pending"
    /\ UNCHANGED << now, data, last_updated, is_updating, lock, pc, calls, myCall,
                    matches, matches_data, final_json, wakeAt, rpc, snap,
                    resp, dataCall, stampCall, everPopulated, reqLate >>
    /\ UNCHANGED notMainVars

\* force_refresh while cache.is_updating is clear: the task starts on worker w
RefreshInitiated(w) ==
    /\ ~is_updating
    /\ pc[w] = "idle"
    /\ Call(w)
    /\ refreshResp' = "initiated"
    /\ UNCHANGED << now, data, last_updated, is_updating, lock, matches,
                    matches_data, final_json, wakeAt, rpc, snap, resp,
                    dataCall, stampCall, everPopulated, reqLate >>
    /\ UNCHANGED notMainVars

\* run_scraping_job: "if cache.is_updating: return"
CheckBusy(t) ==
    /\ pc[t] = "check"
    /\ is_updating
    /\ Return(t)
    /\ UNCHANGED << now, data, last_updated, is_updating, lock, calls, refreshResp,
                    rpc, snap, resp, dataCall, stampCall, everPopulated, reqLate >>
    /\ UNCHANGED notMainVars

CheckFree(t) ==
    /\ pc[t] = "check"
    /\ ~is_updating
    /\ Goto(t, "setflag")
    /\ UNCHANGED << now, data, last_updated, is_updating, lock, calls, myCall,
                    matches, matches_data, final_json, wakeAt, refreshResp,
                    rpc, snap, resp, dataCall, stampCall, everPopulated, reqLate >>
    /\ UNCHANGED notMainVars

\* SetFlag as it would be if the pass took cache.lock for its whole duration
SetFlag_HoldsLock(t) ==
    /\ pc[t] = "setflag"
    /\ lock = NoThread
    /\ lock' = t
    /\ is_updating' = TRUE
    /\ Goto(t, "fetch")
    /\ UNCHANGED << now, data, last_updated, calls, myCall,
                    matches, matches_data, final_json, wakeAt, refreshResp,
                    rpc, snap, resp, dataCall, stampCall, everPopulated, reqLate >>
    /\ UNCHANGED notMainVars

\* run_scraping_job: "cache.is_updating = True"
SetFlag(t) ==
    /\ pc[t] = "setflag"
    /\ is_updating' = TRUE
    /\ Goto(t, "fetch")
    /\ UNCHANGED << now, data, last_updated, lock, calls, myCall,
                    matches, matches_data, final_json, wakeAt, refreshResp,
                    rpc, snap, resp, dataCall, stampCall, everPopulated, reqLate >>
    /\ UNCHANGED notMainVars

\* run_scraping_job: "home_html = fetch(BASE)"
Fetch(t) ==
    /\ pc[t] = "fetch"
    /\ \E h \in { "", "html" } :
          /\ Goto(t, IF h = "" THEN "abort" ELSE "list")
    /\ UNCHANGED << now, data, last_updated, is_updating, lock, calls, myCall,
                    matches, matches_data, final_json, wakeAt, refreshResp,
                    rpc, snap, resp, dataCall, stampCall, everPopulated, reqLate >>
    /\ UNCHANGED notMainVars

\* run_scraping_job: "matches = find_matches_from_html(home_html)"
List(t) ==
    /\ pc[t] = "list"
    /\ \E ms \in MatchLists :
          /\ matches' = [matches EXCEPT ![t] = ms]
          /\ Goto(t, IF ms = << >> THEN "abort" ELSE "resolve")
    /\ UNCHANGED << now, data, last_updated, is_updating, lock, calls, myCall,
                    matches_data, final_json, wakeAt, refreshResp,
                    rpc, snap, resp, dataCall, stampCall, everPopulated, reqLate >>
    /\ UNCHANGED notMainVars

\* run_scraping_job: the parser raises inside the try block
ListRaises(t) ==
    /\ pc[t] = "list"
    /\ Goto(t, "abort")
    /\ UNCHANGED << now, data, last_updated, is_updating, lock, calls, myCall,
                    matches, matches_data, final_json, wakeAt, refreshResp,
                    rpc, snap, resp, dataCall, stampCall, everPopulated, reqLate >>
    /\ UNCHANGED notMainVars

\* run_scraping_job: the process_match loop, then
\* "final_json = process_matches_to_json(matches_data, logo_dict)"
Resolve(t) ==
    /\ pc[t] = "resolve"
    /\ \E md \in ResolvedLists(matches[t]) :
          /\ matches_data' = [matches_data EXCEPT ![t] = md]
          /\ final_json' = [final_json EXCEPT ![t] = process_matches_to_json_main(md)]
    /\ matches' = [matches EXCEPT ![t] = << >>]
    /\ Goto(t, "set_lock")
    /\ UNCHANGED << now, data, last_updated, is_updating, lock, calls, myCall,
                    wakeAt, refreshResp,
                    rpc, snap, resp, dataCall, stampCall, everPopulated, reqLate >>
    /\ UNCHANGED notMainVars

\* MatchCache.set: "with self.lock:"
SetLock(t) ==
    /\ pc[t] = "set_lock"
    /\ lock = NoThread
    /\ lock' = t
    /\ Goto(t, "set_data")
    /\ UNCHANGED << now, data, last_updated, is_updating, calls, myCall,
                    matches, matches_data, final_json, wakeAt, refreshResp,
                    rpc, snap, resp, dataCall, stampCall, everPopulated, reqLate >>
    /\ UNCHANGED notMainVars

\* MatchCache.set: "self.data = data"
SetData(t) ==
    /\ pc[t] = "set_data"
    /\ data' = final_json[t]
    /\ dataCall' = myCall[t]
    /\ everPopulated' = (everPopulated \/ final_json[t] # << >>)
    /\ Goto(t, "set_stamp")
    /\ UNCHANGED << now, last_updated, is_updating, lock, calls, myCall,
                    matches, matches_data, final_json, wakeAt, refreshResp,
                    rpc, snap, resp, stampCall, reqLate >>
    /\ UNCHANGED notMainVars

\* MatchCache.set: "self.last_updated = time.time()"
SetStamp(t) ==
    /\ pc[t] = "set_stamp"
    /\ last_updated' = now
    /\ stampCall' = myCall[t]
    /\ Goto(t, "set_clear")
    /\ UNCHANGED << now, data, is_updating, lock, calls, myCall,
                    matches, matches_data, final_json, wakeAt, refreshResp,
                    rpc, snap, resp, dataCall, everPopulated, reqLate >>
    /\ UNCHANGED notMainVars

\* MatchCache.set: "self.is_updating = False"
SetClear(t) ==
    /\ pc[t] = "set_clear"
    /\ is_updating' = FALSE
    /\ Goto(t, "set_unlock")
    /\ UNCHANGED << now, data, last_updated, lock, calls, myCall,
                    matches, matches_data, final_json, wakeAt, refreshResp,
                    rpc, snap, resp, dataCall, stampCall, everPopulated, reqLate >>
    /\ UNCHANGED notMainVars

\* MatchCache.set: the with block ends; run_scraping_job returns
SetUnlock(t) ==
    /\ pc[t] = "set_unlock"
    /\ lock' = NoThread
    /\ Return(t)
    /\ UNCHANGED << now, data, last_updated, is_updating, calls, refreshResp,
                    rpc, snap, resp, dataCall, stampCall, everPopulated, reqLate >>
    /\ UNCHANGED notMainVars

\* Abort as it would be if an early return forgot to clear the flag
Abort_KeepsFlag(t) ==
    /\ pc[t] = "abort"
    /\ Return(t)
    /\ UNCHANGED << now, data, last_updated, is_updating, lock, calls, refreshResp,
                    rpc, snap, resp, dataCall, stampCall, everPopulated, reqLate >>
    /\ UNCHANGED notMainVars

\* run_scraping_job: "cache.is_updating = False" on the three paths that do not commit
Abort(t) ==
    /\ pc[t] = "abort"
    /\ is_updating' = FALSE
    /\ Return(t)
    /\ UNCHANGED << now, data, last_updated, lock, calls, refreshResp,
                    rpc, snap, resp, dataCall, stampCall, everPopulated, reqLate >>
    /\ UNCHANGED notMainVars

-----------------------------------------------------------------------------
(* src/main.py: the /matches handler and MatchCache.get *)

NoSnap == [ matches |-> << >>, last_updated |-> NoTime, cache_age_seconds |-> NoTime,
            dataCall |-> 0, stampCall |-> 0 ]
NoResp == 0

\* get_matches is called
MatchesBegin ==
    /\ rpc = "idle"
    /\ rpc' = "g_lock"
    /\ snap' = NoSnap
    /\ resp' = NoResp
    /\ reqLate' = everPopulated
    /\ UNCHANGED << now, data, last_updated, is_updating, lock, pc, calls, myCall,
                    matches, matches_data, final_json, wakeAt, refreshResp,
                    dataCall, stampCall, everPopulated >>
    /\ UNCHANGED notMainVars

\* GetLock as it would be if get read the fields without taking cache.lock
GetLock_Unlocked ==
    /\ rpc = "g_lock"
    /\ rpc' = "g_data"
    /\ UNCHANGED << now, data, last_updated, is_updating, lock, pc, calls, myCall,
                    matches, matches_data, final_json, wakeAt, refreshResp,
                    snap, resp, dataCall, stampCall, everPopulated, reqLate >>
    /\ UNCHANGED notMainVars

\* MatchCache.get: "with self.lock:"
GetLock ==
    /\ rpc = "g_lock"
    /\ lock = NoThread
    /\ lock' = Reader
    /\ rpc' = "g_data"
    /\ UNCHANGED << now, data, last_updated, is_updating, pc, calls, myCall,
                    matches, matches_data, final_json, wakeAt, refreshResp,
                    snap, resp, dataCall, stampCall, everPopulated, reqLate >>
    /\ UNCHANGED notMainVars

\* MatchCache.get: "matches": self.data
GetData ==
    /\ rpc = "g_data"
    /\ snap' = [snap EXCEPT !.matches = data, !.dataCall = dataCall]
    /\ rpc' = "g_stamp"
    /\ UNCHANGED << now, data, last_updated, is_updating, lock, pc, calls, myCall,
                    matches, matches_data, final_json, wakeAt, refreshResp,
                    resp, dataCall, stampCall, everPopulated, reqLate >>
    /\ UNCHANGED notMainVars

\* MatchCache.get: "last_updated" and "cache_age_seconds"
GetStamp ==
    /\ rpc = "g_stamp"
    /\ snap' = [snap EXCEPT
                  !.last_updated = IF last_updated # 0 THEN last_updated ELSE NoTime,
                  !.cache_age_seconds = IF last_updated # 0 THEN now - last_updated ELSE NoTime,
                  !.stampCall = stampCall]
    /\ rpc' = "g_unlock"
    /\ UNCHANGED << now, data, last_updated, is_updating, lock, pc, calls, myCall,
                    matches, matches_data, final_json, wakeAt, refreshResp,
                    resp, dataCall, stampCall, everPopulated, reqLate >>
    /\ UNCHANGED notMainVars

\* MatchCache.get: the with block ends
GetUnlock ==
    /\ rpc = "g_unlock"
    /\ lock' = NoThread
    /\ rpc' = "respond"
    /\ UNCHANGED << now, data, last_updated, is_updating, pc, calls, myCall,
                    matches, matches_data, final_json, wakeAt, refreshResp,
                    snap, resp, dataCall, stampCall, everPopulated, reqLate >>
    /\ UNCHANGED notMainVars

\* get_matches: 503 when cache_data["matches"] is empty, else the snapshot
MatchesRespond ==
    /\ rpc = "respond"
    /\ resp' = IF snap.matches = << >> THEN 503 ELSE 200
    /\ snap' = NoSnap
    /\ rpc' = "idle"
    /\ UNCHANGED << now, data, last_updated, is_updating, lock, pc, calls, myCall,
                    matches, matches_data, final_json, wakeAt, refreshResp,
                    dataCall, stampCall, everPopulated, reqLate >>
    /\ UNCHANGED notMainVars

\* time passes
Advance ==
    /\ now + TimeStep <= EndTime
    /\ now' = now + TimeStep
    /\ UNCHANGED << data, last_updated, is_updating, lock, pc, calls, myCall,
                    matches, matches_data, final_json, wakeAt, refreshResp,
                    rpc, snap, resp, dataCall, stampCall, everPopulated, reqLate >>
    /\ UNCHANGED notMainVars

-----------------------------------------------------------------------------

InitMain ==
    /\ now = BootTime
    /\ data = << >>
    /\ last_updated = 0
    /\ is_updating = FALSE
    /\ lock = NoThread
    /\ pc = [ t \in Threads |-> IF t = Sched THEN "boot" ELSE "idle" ]
    /\ calls = 0
    /\ myCall = [ t \in Threads |-> 0 ]
    /\ matches = [ t \in Threads |-> << >> ]
    /\ matches_data = [ t \in Threads |-> << >> ]
    /\ final_json = [ t \in Threads |-> << >> ]
    /\ wakeAt = 0
    /\ refreshResp = "none"
    /\ rpc = "idle"
    /\ snap = NoSnap
    /\ resp = NoResp
    /\ dataCall = 0
    /\ stampCall = 0
    /\ everPopulated = FALSE
    /\ reqLate = FALSE
    /\ feed = "any"

InitAgg ==
    /\ aggPc = "idle"
    /\ aggIn = << >>
    /\ groups = << >>
    /\ result = << >>
    /\ aggAll = << >>

InitFile ==
    /\ fnow = BootTime
    /\ fpc = "boot"
    /\ fwake = 0
    /\ fcalls = 0
    /\ fdata = << >>
    /\ fstamp = 0
    /\ file = NoFile
    /\ fresp = [ status |-> 0, body |-> << >> ]
    /\ fwritten = FALSE
    /\ freqLate = FALSE

InitLogoIdle ==
    /\ logoPc = "idle"
    /\ team_name = << >>
    /\ logos = << >>
    /\ manual_logos = << >>
    /\ missing_teams = {}
    /\ logoOut = [ url |-> "", stage |-> "none", missing |-> {} ]

NoScore == -1      \* None in place of a score
NoPage  == [ empty |-> TRUE, score |-> << >>, player |-> << >>, anchors |-> << >> ]
NoEmbedPage == [ empty |-> TRUE, stmts |-> << >> ]
NoMatch == [ title |-> << >>, url |-> << >>, image |-> << >>, date |-> << >>, league |-> << >> ]
NoResolved ==
    [ title |-> << >>, url |-> << >>, image |-> << >>, date |-> << >>, league |-> << >>,
      embed |-> << >>, m3u8 |-> << >>, home_score |-> NoScore, away_score |-> NoScore ]

InitListIdle ==
    /\ listPc = "idle"
    /\ containers = << >>
    /\ found = << >>

InitResolveIdle ==
    /\ pmPc = "idle"
    /\ match = NoMatch
    /\ net = [ detail |-> [ raises |-> FALSE, html |-> NoPage ],
               embed  |-> [ raises |-> FALSE, html |-> NoEmbedPage ] ]
    /\ m_html = NoPage
    /\ home_score = NoScore
    /\ away_score = NoScore
    /\ embed = << >>
    /\ pmOut = NoResolved

InitOthersIdle == InitLogoIdle /\ InitListIdle /\ InitResolveIdle

Init == InitMain /\ InitAgg /\ InitFile /\ InitOthersIdle

Next ==
    \/ SchedBoot
    \/ SchedStale
    \/ SchedFresh
    \/ RefreshPending
    \/ \E w \in Workers : RefreshInitiated(w)
    \/ \E t \in Threads : CheckBusy(t)
    \/ \E t \in Threads : CheckFree(t)
    \/ \E t \in Threads : SetFlag(t)
    \/ \E t \in Threads : Fetch(t)
    \/ \E t \in Threads : List(t)
    \/ \E t \in Threads : ListRaises(t)
    \/ \E t \in Threads : Resolve(t)
    \/ \E t \in Threads : SetLock(t)
    \/ \E t \in Threads : SetData(t)
    \/ \E t \in Threads : SetStamp(t)
    \/ \E t \in Threads : SetClear(t)
    \/ \E t \in Threads : SetUnlock(t)
    \/ \E t \in Threads : Abort(t)
    \/ MatchesBegin
    \/ GetLock
    \/ GetData
    \/ GetStamp
    \/ GetUnlock
    \/ MatchesRespond
    \/ Advance

Spec == Init /\ [][Next]_vars

-----------------------------------------------------------------------------
(* The file-backed variant: src/scheduler.py, src/app/scraper.py, src/app/main.py *)

FReturn ==
    /\ fpc' = "sleep"
    /\ fwake' = fnow + SCRAPE_INTERVAL
    /\ fdata' = << >>
    /\ fstamp' = 0

FStart ==
    /\ fcalls < MaxCalls
    /\ fcalls' = fcalls + 1
    /\ fpc' = "fetch"

\* start_scheduler: "Run immediately on startup"
FBoot ==
    /\ fpc = "boot"
    /\ FStart
    /\ UNCHANGED << fnow, fwake, fdata, fstamp, file, fresp, fwritten, freqLate >>
    /\ UNCHANGED notFileVars

\* start_scheduler: time.sleep(1200) is over
FWake ==
    /\ fpc = "sleep"
    /\ fnow >= fwake
    /\ FStart
    /\ UNCHANGED << fnow, fwake, fdata, fstamp, file, fresp, fwritten, freqLate >>
    /\ UNCHANGED notFileVars

\* run_scraping_job: fetch, find_matches_from_html, the process_match loop and
\* process_matches_to_json; "return False" when no match is found
FScrape ==
    /\ fpc = "fetch"
    /\ \E ms \in MatchLists :
          IF ms = << >>
          THEN FReturn
          ELSE \E md \in ResolvedLists(ms) :
                  /\ fdata' = process_matches_to_json_main(md)
                  /\ fpc' = "stamp"
                  /\ UNCHANGED << fwake, fstamp >>
    /\ UNCHANGED << fnow, fcalls, file, fresp, fwritten, freqLate >>
    /\ UNCHANGED notFileVars

\* run_scraping_job: fetch raises, "return False"
FRaises ==
    /\ fpc = "fetch"
    /\ FReturn
    /\ UNCHANGED << fnow, fcalls, file, fresp, fwritten, freqLate >>
    /\ UNCHANGED notFileVars

\* run_scraping_job: cache_data = {'timestamp': time.time(), 'matches': final_json}
FStamp ==
    /\ fpc = "stamp"
    /\ fstamp' = fnow
    /\ fpc' = "open"
    /\ UNCHANGED << fnow, fwake, fcalls, fdata, file, fresp, fwritten, freqLate >>
    /\ UNCHANGED notFileVars

\* run_scraping_job: open(CACHE_FILE, 'w') truncates the file
FOpen ==
    /\ fpc = "open"
    /\ file' = [ exists |-> TRUE, complete |-> FALSE, timestamp |-> 0, matches |-> << >> ]
    /\ fpc' = "dump"
    /\ UNCHANGED << fnow, fwake, fcalls, fdata, fstamp, fresp, fwritten, freqLate >>
    /\ UNCHANGED notFileVars

\* run_scraping_job: json.dump, the file is closed, "return True"
FDump ==
    /\ fpc = "dump"
    /\ file' = [ exists |-> TRUE, complete |-> TRUE, timestamp |-> fstamp, matches |-> fdata ]
    /\ fwritten' = TRUE
    /\ FReturn
    /\ UNCHANGED << fnow, fcalls, fresp, freqLate >>
    /\ UNCHANGED notFileVars

\* get_cached_matches: the matches of a complete, unexpired cache file, else None
CachedValid ==
    /\ file.exists
    /\ file.complete
    /\ fnow - file.timestamp < CACHE_DURATION

\* get_matches of src/app/main.py
FGetMatches ==
    /\ fresp' = IF CachedValid
                THEN [ status |-> 200, body |-> file.matches ]
                ELSE [ status |-> 503, body |-> << >> ]
    /\ freqLate' = fwritten
    /\ UNCHANGED << fnow, fpc, fwake, fcalls, fdata, fstamp, file, fwritten >>
    /\ UNCHANGED notFileVars

\* time passes
FAdvance ==
    /\ fnow + TimeStep <= EndTime
    /\ fnow' = fnow + TimeStep
    /\ UNCHANGED << fpc, fwake, fcalls, fdata, fstamp, file, fresp, fwritten, freqLate >>
    /\ UNCHANGED notFileVars

NextFile ==
    \/ FBoot
    \/ FWake
    \/ FScrape
    \/ FRaises
    \/ FStamp
    \/ FOpen
    \/ FDump
    \/ FGetMatches
    \/ FAdvance

SpecFile == Init /\ [][NextFile]_vars

-----------------------------------------------------------------------------
(* src/main.py under a source site that recovers: SpecLive *)

\* the site recovers: from now on every listing holds a candidate and some
\* candidate resolves to a stream ("streams"), or moreover some candidate
\* titled "Home v Away" does ("fixtures")
Recover ==
    /\ feed = "any"
    /\ feed' \in { "streams", "fixtures" }
    /\ UNCHANGED << mainVars, aggVars, fileVars, logoVars, listVars, resolveVars >>

\* run_scraping_job: "home_html = fetch(BASE)" against the site
LiveFetch(t) ==
    /\ Fetch(t)
    /\ feed # "any" => pc'[t] = "list"

\* run_scraping_job: "matches = find_matches_from_html(home_html)" against the site
LiveList(t) ==
    /\ List(t)
    /\ feed # "any" => matches'[t] # << >>
    /\ feed = "fixtures" =>
          \E i \in 1..Len(matches'[t]) : Contains(matches'[t][i], VSep)

\* run_scraping_job: the parser raises on a page of the failing site
LiveListRaises(t) ==
    /\ feed = "any"
    /\ ListRaises(t)

\* run_scraping_job: the process_match loop against the site
LiveResolve(t) ==
    /\ Resolve(t)
    /\ feed # "any" =>
          \E i \in 1..Len(matches_data'[t]) : matches_data'[t][i].m3u8 # NoUrl
    /\ feed = "fixtures" =>
          \E i \in 1..Len(matches_data'[t]) :
              /\ Contains(matches_data'[t][i].title, VSep)
              /\ matches_data'[t][i].m3u8 # NoUrl

\* the steps of thread t that wait for nothing
Runs(t) ==
    \/ CheckBusy(t)
    \/ CheckFree(t)
    \/ SetFlag(t)
    \/ LiveFetch(t)
    \/ LiveList(t)
    \/ LiveResolve(t)
    \/ SetData(t)
    \/ SetStamp(t)
    \/ SetClear(t)
    \/ SetUnlock(t)
    \/ Abort(t)

\* the steps of schedule_scraping outside run_scraping_job
Ticks ==
    \/ SchedBoot
    \/ SchedStale
    \/ SchedFresh

NextLive ==
    \/ Recover
    \/ Ticks
    \/ RefreshPending
    \/ \E w \in Workers : RefreshInitiated(w)
    \/ \E t \in Threads : Runs(t)
    \/ \E t \in Threads : LiveListRaises(t)
    \/ \E t \in Threads : SetLock(t)
    \/ Advance

\* every thread of the process is scheduled, time passes, and a thread that
\* finds cache.lock free again and again acquires it; /matches requests,
\* which hold cache.lock for the three reads of MatchCache.get only, are not
\* part of this specification
SpecLive ==
    /\ Init
    /\ [][NextLive]_vars
    /\ WF_vars(Ticks)
    /\ WF_vars(Advance)
    /\ \A t \in Threads : WF_vars(Runs(t))
    /\ \A t \in Threads : SF_vars(SetLock(t))

-----------------------------------------------------------------------------
(* src/scraper.py: normalize_string, KNOWN_ALIASES, find_logo_url *)

UpperChars == << "A", "B", "C", "D", "E", "F", "G", "H", "I", "J", "K", "L", "M", "N", "O", "P", "Q", "R", "S", "T", "U", "V", "W", "X", "Y", "Z" >>
LowerChars == << "a", "b", "c", "d", "e", "f", "g", "h", "i", "j", "k", "l", "m", "n", "o", "p", "q", "r", "s", "t", "u", "v", "w", "x", "y", "z" >>
DigitChars == << "0", "1", "2", "3", "4", "5", "6", "7", "8", "9" >>

\* accented letters, written as the base letter followed by "~"
AccentedChars == << "o~", "e~" >>
BaseChars     == << "o", "e" >>

IndexIn(seq, c) ==
    IF \E i \in 1..Len(seq) : seq[i] = c
    THEN CHOOSE i \in 1..Len(seq) : seq[i] = c
    ELSE 0

\* NFD decomposition followed by encode('ascii', 'ignore')
StripAccent(c) == IF IndexIn(AccentedChars, c) # 0 THEN BaseChars[IndexIn(AccentedChars, c)] ELSE c

\* str.lower() on one character
LowerChar(c) == IF IndexIn(UpperChars, c) # 0 THEN LowerChars[IndexIn(UpperChars, c)] ELSE c

\* the characters re.sub(r"[^a-z0-9\s]", "", s) keeps
KeptChar(c) == c = " " \/ IndexIn(LowerChars, c) # 0 \/ IndexIn(DigitChars, c) # 0

RECURSIVE NormalizeChars(_)
NormalizeChars(s) ==
    IF s = << >> THEN << >>
    ELSE LET c == LowerChar(StripAccent(Head(s)))
         IN  IF KeptChar(c) THEN << c >> \o NormalizeChars(Tail(s)) ELSE NormalizeChars(Tail(s))

normalize_string(s) == Strip(NormalizeChars(s))

\* str.replace(" ", "-")
Hyphenate(s) == [ i \in 1..Len(s) |-> IF s[i] = " " THEN "-" ELSE s[i] ]

StartsWith(s, p) == Len(p) <= Len(s) /\ SubSeq(s, 1, Len(p)) = p
EndsWith(s, p)   == Len(p) <= Len(s) /\ SubSeq(s, Len(s) - Len(p) + 1, Len(s)) = p

\* KNOWN_ALIASES as (key, value) pairs
KNOWN_ALIASES == <<
    << << "w", "o", "l", "v", "e", "s" >>,
       << "w", "o", "l", "v", "e", "r", "h", "a", "m", "p", "t", "o", "n", " ", "w", "a", "n", "d", "e", "r", "e", "r", "s" >> >>,
    << << "s", "p", "u", "r", "s" >>,
       << "t", "o", "t", "t", "e", "n", "h", "a", "m", " ", "h", "o", "t", "s", "p", "u", "r" >> >>,
    << << "m", "a", "n", " ", "u", "t", "d" >>,
       << "m", "a", "n", "c", "h", "e", "s", "t", "e", "r", " ", "u", "n", "i", "t", "e", "d" >> >>,
    << << "m", "a", "n", " ", "c", "i", "t", "y" >>,
       << "m", "a", "n", "c", "h", "e", "s", "t", "e", "r", " ", "c", "i", "t", "y" >> >>,
    << << "m", "'", "g", "l", "a", "d", "b", "a", "c", "h" >>,
       << "b", "o", "r", "u", "s", "s", "i", "a", " ", "m", "o", "n", "c", "h", "e", "n", "g", "l", "a", "d", "b", "a", "c", "h" >> >>,
    << << "m", "g", "l", "a", "d", "b", "a", "c", "h" >>,
       << "b", "o", "r", "u", "s", "s", "i", "a", " ", "m", "o", "n", "c", "h", "e", "n", "g", "l", "a", "d", "b", "a", "c", "h" >> >>,
    << << "g", "l", "a", "d", "b", "a", "c", "h" >>,
       << "b", "o", "r", "u", "s", "s", "i", "a", " ", "m", "o", "n", "c", "h", "e", "n", "g", "l", "a", "d", "b", "a", "c", "h" >> >>,
    << << "m", "a", "i", "n", "z" >>,
       << "m", "a", "i", "n", "z", " ", "0", "5" >> >>,
    << << "s", "c", "h", "a", "l", "k", "e" >>,
       << "s", "c", "h", "a", "l", "k", "e", " ", "0", "4" >> >>,
    << << "q", "a", "r", "a", "b", "a", "g" >>,
       << "q", "a", "r", "a", "b", "a", "g", " ", "f", "k" >> >>,
    << << "m", "a", "l", "m", "o", " ", "f", "f" >>,
       << "m", "a", "l", "m", "o" >> >>,
    << << "f", "e", "r", "e", "n", "c", "v", "a", "r", "o", "s" >>,
       << "f", "e", "r", "e", "n", "c", "v", "a", "r", "o", "s", "i" >> >>,
    << << "p", "s", "g" >>,
       << "p", "a", "r", "i", "s", " ", "s", "a", "i", "n", "t", "-", "g", "e", "r", "m", "a", "i", "n" >> >>,
    << << "s", "p", "o", "r", "t", "i", "n", "g", " ", "c", "p" >>,
       << "s", "p", "o", "r", "t", "i", "n", "g" >> >>,
    << << "a", "c", " ", "m", "i", "l", "a", "n" >>,
       << "m", "i", "l", "a", "n" >> >>,
    << << "i", "n", "t", "e", "r", " ", "m", "i", "l", "a", "n" >>,
       << "i", "n", "t", "e", "r" >> >>,
    << << "i", "n", "t", "e", "r" >>,
       << "i", "n", "t", "e", "r" >> >>,
    << << "a", "t", "m" >>,
       << "a", "t", "l", "e", "t", "i", "c", "o", " ", "m", "a", "d", "r", "i", "d" >> >>
>>

\* a resolver without the alias table
AliasIndex_NoTable(name) == 0

AliasIndex(name) ==
    IF \E i \in 1..Len(KNOWN_ALIASES) : KNOWN_ALIASES[i][1] = name
    THEN CHOOSE i \in 1..Len(KNOWN_ALIASES) : KNOWN_ALIASES[i][1] = name
    ELSE 0

\* the list garbage of get_core_name
Garbage == <<
    << " ", "f", "c" >>,
    << " ", "f", "k" >>,
    << " ", "s", "c" >>,
    << " ", "f", "f" >>,
    << " ", "t", "c" >>,
    << " ", "a", "s" >>,
    << " ", "c", "f" >>,
    << " ", "s", "v" >>,
    << " ", "s", "k" >>,
    << " ", "s", "p" >>,
    << " ", "c", "d" >>
>>

\* one iteration of the loop of get_core_name
CoreStep(core, g) ==
    LET c1 == IF EndsWith(core, g) THEN SubSeq(core, 1, Len(core) - Len(g)) ELSE core
        p  == Strip(g) \o << " " >>
    IN  IF StartsWith(c1, p) THEN SubSeq(c1, Len(p) + 1, Len(c1)) ELSE c1

RECURSIVE CoreLoop(_, _)
CoreLoop(core, gs) == IF gs = << >> THEN core ELSE CoreLoop(CoreStep(core, Head(gs)), Tail(gs))

get_core_name(name) == Strip(CoreLoop(name, Garbage))

-----------------------------------------------------------------------------
(* difflib.get_close_matches(word, possibilities, n=1, cutoff=0.85) *)

\* the cutoff 0.85 as a fraction
CutoffNum == 85
CutoffDen == 100

SetMax(S) == CHOOSE x \in S : \A y \in S : y <= x
SetMin(S) == CHOOSE x \in S : \A y \in S : x <= y

\* length of the common run of a[i..ahi] and b[j..bhi] that starts at i and j
RECURSIVE MatchLen(_, _, _, _, _, _)
MatchLen(a, i, ahi, b, j, bhi) ==
    IF i > ahi \/ j > bhi THEN 0
    ELSE IF a[i] # b[j] THEN 0
    ELSE 1 + MatchLen(a, i + 1, ahi, b, j + 1, bhi)

\* SequenceMatcher.find_longest_match: the longest block, the earliest in a,
\* then the earliest in b
LongestMatch(a, alo, ahi, b, blo, bhi) ==
    LET lens == { MatchLen(a, i, ahi, b, j, bhi) : i \in alo..ahi, j \in blo..bhi }
        k    == IF lens = {} THEN 0 ELSE SetMax(lens)
    IN  IF k = 0 THEN << alo, blo, 0 >>
        ELSE LET i == SetMin({ x \in alo..ahi :
                                 \E y \in blo..bhi : MatchLen(a, x, ahi, b, y, bhi) = k })
                 j == SetMin({ y \in blo..bhi : MatchLen(a, i, ahi, b, y, bhi) = k })
             IN  << i, j, k >>

\* the total size of SequenceMatcher.get_matching_blocks
RECURSIVE MatchCount(_, _, _, _, _, _)
MatchCount(a, alo, ahi, b, blo, bhi) ==
    LET m == LongestMatch(a, alo, ahi, b, blo, bhi)
    IN  IF m[3] = 0 THEN 0
        ELSE m[3] + MatchCount(a, alo, m[1] - 1, b, blo, m[2] - 1)
                  + MatchCount(a, m[1] + m[3], ahi, b, m[2] + m[3], bhi)

\* SequenceMatcher.ratio() as a fraction << numerator, denominator >>
Ratio(a, b) ==
    IF Len(a) + Len(b) = 0 THEN << 1, 1 >>
    ELSE << 2 * MatchCount(a, 1, Len(a), b, 1, Len(b)), Len(a) + Len(b) >>

\* SequenceMatcher.real_quick_ratio() >= cutoff
RealQuickOk(a, b) ==
    LET la == Len(a)
        lb == Len(b)
        mn == IF la < lb THEN la ELSE lb
    IN  la + lb = 0 \/ 2 * mn * CutoffDen >= CutoffNum * (la + lb)

RatioOk(a, b) ==
    /\ RealQuickOk(a, b)
    /\ LET r == Ratio(a, b) IN r[1] * CutoffDen >= CutoffNum * r[2]

\* code-point order of the characters of a normalized string
CharOrder == << " " >> \o DigitChars \o LowerChars

RECURSIVE StrLess(_, _)
StrLess(x, y) ==
    IF y = << >> THEN FALSE
    ELSE IF x = << >> THEN TRUE
    ELSE IF Head(x) = Head(y) THEN StrLess(Tail(x), Tail(y))
    ELSE IndexIn(CharOrder, Head(x)) < IndexIn(CharOrder, Head(y))

\* (ratio, x) of candidate i is at least that of candidate j
ScoreGeq(word, poss, i, j) ==
    LET ri == Ratio(poss[i], word)
        rj == Ratio(poss[j], word)
    IN  \/ ri[1] * rj[2] > rj[1] * ri[2]
        \/ /\ ri[1] * rj[2] = rj[1] * ri[2]
           /\ ~StrLess(poss[i], poss[j])

\* the list get_close_matches returns: the best candidate, or nothing
get_close_matches(word, poss) ==
    LET good == { i \in 1..Len(poss) : RatioOk(poss[i], word) }
    IN  IF good = {} THEN << >>
        ELSE << poss[CHOOSE i \in good : \A j \in good : ScoreGeq(word, poss, i, j)] >>

-----------------------------------------------------------------------------
(* src/scraper.py: find_logo_url *)

\* the least index of a set of indices (0 when there is none)
FirstOf(S) == IF S = {} THEN 0 ELSE SetMin(S)

\* a scan that accepts a substring relation in either direction
ScanHit_EitherDirection(core, logo_key) ==
    \/ core = logo_key
    \/ Len(core) > 3 /\ (Contains(logo_key, core) \/ Contains(core, logo_key))

\* the two tests of the scan loop on one catalog entry
ScanHit(core, logo_key) ==
    \/ core = logo_key
    \/ Len(core) > 3 /\ Contains(logo_key, core)

\* a cascade that substitutes the alias before the manual lookup
find_logo_url_AliasFirst(team, lg, manual, missing) ==
    LET raw    == normalize_string(team)
        ai     == AliasIndex(raw)
        target == IF ai # 0 THEN normalize_string(KNOWN_ALIASES[ai][2]) ELSE raw
        core   == get_core_name(target)
        ByFile(name) == FirstOf({ i \in 1..Len(lg) : lg[i].filename = name })
        fi     == ByFile(Hyphenate(target))
        ci     == ByFile(Hyphenate(core))
        si     == FirstOf({ i \in 1..Len(lg) : ScanHit(core, lg[i].search_key) })
        candidates == [ i \in 1..Len(lg) |-> lg[i].search_key ]
        ByKey(key) == FirstOf({ i \in 1..Len(lg) : lg[i].search_key = key })
        m1     == get_close_matches(target, candidates)
        m2     == get_close_matches(core, candidates)
        Found(u, st) == [ url |-> u, stage |-> st, missing |-> missing ]
    IN  IF ai # 0 /\ target \in DOMAIN manual THEN Found(manual[target], "alias_manual")
        ELSE IF raw \in DOMAIN manual THEN Found(manual[raw], "manual")
        ELSE IF fi # 0 THEN Found(lg[fi].url, "filename")
        ELSE IF ci # 0 THEN Found(lg[ci].url, "core_filename")
        ELSE IF si # 0
             THEN Found(lg[si].url, IF core = lg[si].search_key THEN "scan_exact" ELSE "scan_substring")
        ELSE IF m1 # << >> THEN Found(lg[ByKey(m1[1])].url, "fuzzy")
        ELSE IF m2 # << >> THEN Found(lg[ByKey(m2[1])].url, "fuzzy_core")
        ELSE [ url |-> "", stage |-> "missing", missing |-> missing \cup { team } ]

\* a cascade that records the normalized name of an unresolved team
find_logo_url_RecordsNormalized(team, lg, manual, missing) ==
    LET raw    == normalize_string(team)
        ai     == AliasIndex(raw)
        target == IF ai # 0 THEN normalize_string(KNOWN_ALIASES[ai][2]) ELSE raw
        core   == get_core_name(target)
        ByFile(name) == FirstOf({ i \in 1..Len(lg) : lg[i].filename = name })
        fi     == ByFile(Hyphenate(target))
        ci     == ByFile(Hyphenate(core))
        si     == FirstOf({ i \in 1..Len(lg) : ScanHit(core, lg[i].search_key) })
        candidates == [ i \in 1..Len(lg) |-> lg[i].search_key ]
        ByKey(key) == FirstOf({ i \in 1..Len(lg) : lg[i].search_key = key })
        m1     == get_close_matches(target, candidates)
        m2     == get_close_matches(core, candidates)
        Found(u, st) == [ url |-> u, stage |-> st, missing |-> missing ]
    IN  IF raw \in DOMAIN manual THEN Found(manual[raw], "manual")
        ELSE IF ai # 0 /\ target \in DOMAIN manual THEN Found(manual[target], "alias_manual")
        ELSE IF fi # 0 THEN Found(lg[fi].url, "filename")
        ELSE IF ci # 0 THEN Found(lg[ci].url, "core_filename")
        ELSE IF si # 0
             THEN Found(lg[si].url, IF core = lg[si].search_key THEN "scan_exact" ELSE "scan_substring")
        ELSE IF m1 # << >> THEN Found(lg[ByKey(m1[1])].url, "fuzzy")
        ELSE IF m2 # << >> THEN Found(lg[ByKey(m2[1])].url, "fuzzy_core")
        ELSE [ url |-> "", stage |-> "missing", missing |-> missing \cup { raw } ]

\* the value find_logo_url returns, the stage of the cascade that returned
\* it, and missing_teams as the call leaves it
find_logo_url(team, lg, manual, missing) ==
    LET raw    == normalize_string(team)
        ai     == AliasIndex(raw)
        target == IF ai # 0 THEN normalize_string(KNOWN_ALIASES[ai][2]) ELSE raw
        core   == get_core_name(target)
        ByFile(name) == FirstOf({ i \in 1..Len(lg) : lg[i].filename = name })
        fi     == ByFile(Hyphenate(target))
        ci     == ByFile(Hyphenate(core))
        si     == FirstOf({ i \in 1..Len(lg) : ScanHit(core, lg[i].search_key) })
        candidates == [ i \in 1..Len(lg) |-> lg[i].search_key ]
        ByKey(key) == FirstOf({ i \in 1..Len(lg) : lg[i].search_key = key })
        m1     == get_close_matches(target, candidates)
        m2     == get_close_matches(core, candidates)
        Found(u, st) == [ url |-> u, stage |-> st, missing |-> missing ]
    IN  IF raw \in DOMAIN manual THEN Found(manual[raw], "manual")
        ELSE IF ai # 0 /\ target \in DOMAIN manual THEN Found(manual[target], "alias_manual")
        ELSE IF fi # 0 THEN Found(lg[fi].url, "filename")
        ELSE IF ci # 0 THEN Found(lg[ci].url, "core_filename")
        ELSE IF si # 0
             THEN Found(lg[si].url, IF core = lg[si].search_key THEN "scan_exact" ELSE "scan_substring")
        ELSE IF m1 # << >> THEN Found(lg[ByKey(m1[1])].url, "fuzzy")
        ELSE IF m2 # << >> THEN Found(lg[ByKey(m2[1])].url, "fuzzy_core")
        ELSE [ url |-> "", stage |-> "missing", missing |-> missing \cup { team } ]

\* team names passed to find_logo_url: every key and every value of
\* KNOWN_ALIASES, and names as they appear in titles
ExtraTeams == {
    << "A", "C", " ", "M", "i", "l", "a", "n" >>,
    << "M", "a", "l", "m", "o~", " ", "F", "F" >>,
    << "I", "n", "t", "e", "r", " ", "M", "i", "l", "a", "n", " ", "F", "C" >>,
    << "P", "S", "V" >>,
    << "A", "t", "l", "e", "t", "i", "c", "o" >>,
    << "M", "i", "l", "a", "n", "o" >>,
    << >>
}

LogoTeams ==
    { KNOWN_ALIASES[i][1] : i \in 1..Len(KNOWN_ALIASES) }
        \cup { KNOWN_ALIASES[i][2] : i \in 1..Len(KNOWN_ALIASES) }
        \cup ExtraTeams

\* catalog entries as fetch_and_parse_logos builds them
LogoPool == {
    [ filename |-> << "a", "c", "-", "m", "i", "l", "a", "n" >>,
      search_key |-> << "m", "i", "l", "a", "n" >>,
      url |-> "logo:ac-milan" ],
    [ filename |-> << "i", "n", "t", "e", "r", "-", "m", "i", "l", "a", "n" >>,
      search_key |-> << "i", "n", "t", "e", "r", " ", "m", "i", "l", "a", "n" >>,
      url |-> "logo:inter-milan" ],
    [ filename |-> << "i", "n", "t", "e", "r" >>,
      search_key |-> << "i", "n", "t", "e", "r" >>,
      url |-> "logo:inter" ],
    [ filename |-> << "a", "t", "l", "e", "t", "i", "c", "o", "-", "m", "a", "d", "r", "i", "d" >>,
      search_key |-> << "a", "t", "l", "e", "t", "i", "c", "o", " ", "m", "a", "d", "r", "i", "d" >>,
      url |-> "logo:atletico-madrid" ],
    [ filename |-> << "p", "s", "v", "-", "e", "i", "n", "d", "h", "o", "v", "e", "n" >>,
      search_key |-> << "p", "s", "v", " ", "e", "i", "n", "d", "h", "o", "v", "e", "n" >>,
      url |-> "logo:psv-eindhoven" ],
    [ filename |-> << "m", "a", "l", "m", "o", "-", "f", "f" >>,
      search_key |-> << "m", "a", "l", "m", "o", " ", "f", "f" >>,
      url |-> "logo:malmo-ff" ],
    [ filename |-> << "m", "a", "n", "-", "u", "t", "d" >>,
      search_key |-> << "m", "a", "n", "c", "h", "e", "s", "t", "e", "r", " ", "u", "t", "d" >>,
      url |-> "logo:man-utd" ]
}

\* catalogs: entries in feed order, one per filename
Catalogs ==
    { c \in SeqsUpTo(LogoPool, MaxLogos) :
        \A i, j \in 1..Len(c) : i # j => c[i].filename # c[j].filename }

\* the manual overrides load_manual_logos can return
ManualPool ==
    (<< "a", "t", "m" >> :> "manual:atm") @@
    (<< "m", "i", "l", "a", "n" >> :> "manual:milan") @@
    (<< "a", "t", "l", "e", "t", "i", "c", "o", " ", "m", "a", "d", "r", "i", "d" >> :> "manual:atletico-madrid")

Manuals == { [ k \in K |-> ManualPool[k] ] : K \in SUBSET DOMAIN ManualPool }

NoLogo == [ url |-> "", stage |-> "none", missing |-> {} ]

InitLogoCall ==
    /\ logoPc = "call"
    /\ team_name \in LogoTeams
    /\ logos \in Catalogs
    /\ manual_logos \in Manuals
    /\ missing_teams = {}
    /\ logoOut = NoLogo

\* a call of find_logo_url(team_name, league, logos, manual_logos, missing_teams)
FindLogo ==
    /\ logoPc = "call"
    /\ logoOut' = find_logo_url(team_name, logos, manual_logos, missing_teams)
    /\ missing_teams' = logoOut'.missing
    /\ logoPc' = "done"
    /\ UNCHANGED << team_name, logos, manual_logos >>
    /\ UNCHANGED notLogoVars

NextLogo ==
    \/ FindLogo

InitLogoSpec ==
    InitMain /\ InitAgg /\ InitFile /\ InitLogoCall /\ InitListIdle /\ InitResolveIdle

SpecLogo == InitLogoSpec /\ [][NextLogo]_vars

-----------------------------------------------------------------------------
(* src/scraper.py: process_matches_to_json *)

TitleABsp    == << "A", " ", "v", " ", "B", " " >>
TitleLower   == << "a", " ", "v", " ", "b" >>
TitleClubs   == << "I", "n", "t", "e", "r", " ", "v", " ", "P", "S", "V" >>
AggTitles    == { TitleAB, TitleABsp, TitleLower, TitleNews, TitleClubs }

\* URLs as token sequences: "h" a scheme and host, "M" the path
\* "/manifest/0.m3u8", "x" any other path, "|" the parameter separator
Marker   == << "M" >>
UrlOk    == << "h", "M" >>
UrlAlt   == << "h", "x" >>
UrlParam == << "h", "M", "|", "p" >>
AggUrls  == { UrlOk, UrlAlt, UrlParam }

\* the m3u8 field of a resolved fixture: a list of URLs, NoUrl for None
AggFixtures == { [ title |-> ti, m3u8 |-> us ] :
                    ti \in AggTitles, us \in SeqsUpTo(AggUrls, MaxUrls) }

AggInputs == SeqsUpTo(AggFixtures, MaxFixtures)

\* the logos argument: what fetch_and_parse_logos returned, in feed order
AggCatalogs == {
    << >>,
    << [ filename |-> << "i", "n", "t", "e", "r" >>,
         search_key |-> << "i", "n", "t", "e", "r" >>,
         url |-> "logo:inter" ],
       [ filename |-> << "a" >>, search_key |-> << "a" >>, url |-> "logo:a" ] >> }

\* the manual_logos argument: what load_manual_logos returned
AggManuals == { << >>, [ k \in { << "b" >> } |-> "manual:b" ] }

\* url.split("|")[0]
BeforeBar(url) ==
    LET k == FindFirst(url, << "|" >>)
    IN  IF k = 0 THEN url ELSE SubSeq(url, 1, k - 1)

\* a filter that keeps the "|" parameter of the resolved URL
RECURSIVE ValidStreams_KeepsParam(_)
ValidStreams_KeepsParam(us) ==
    IF us = << >> THEN << >>
    ELSE LET url == Strip(Head(us))
         IN  IF Contains(url, Marker)
             THEN << url \o Referer >> \o ValidStreams_KeepsParam(Tail(us))
             ELSE ValidStreams_KeepsParam(Tail(us))

\* the list streams built for one fixture
RECURSIVE ValidStreams(_)
ValidStreams(us) ==
    IF us = << >> THEN << >>
    ELSE LET url == Strip(BeforeBar(Head(us)))
         IN  IF Contains(url, Marker)
             THEN << url \o Referer >> \o ValidStreams(Tail(us))
             ELSE ValidStreams(Tail(us))

GroupIndex(gs, title) ==
    IF \E i \in 1..Len(gs) : gs[i].title = title
    THEN CHOOSE i \in 1..Len(gs) : gs[i].title = title
    ELSE 0

\* first loop: "if not m.get("m3u8"): continue"
AggSkip ==
    /\ aggPc = "group"
    /\ aggIn # << >>
    /\ Head(aggIn).m3u8 = NoUrl
    /\ aggIn' = Tail(aggIn)
    /\ UNCHANGED << aggPc, groups, result, aggAll >>
    /\ UNCHANGED notAggVars

\* a first loop that assigns streams in place of extending them
AggGroup_Overwrites ==
    /\ aggPc = "group"
    /\ aggIn # << >>
    /\ Head(aggIn).m3u8 # NoUrl
    /\ LET m       == Head(aggIn)
           streams == ValidStreams(m.m3u8)
           k       == GroupIndex(groups, m.title)
       IN  groups' = IF k = 0
                     THEN Append(groups, [ title |-> m.title, streams |-> streams ])
                     ELSE [groups EXCEPT ![k].streams = streams]
    /\ aggIn' = Tail(aggIn)
    /\ UNCHANGED << aggPc, result, aggAll >>
    /\ UNCHANGED notAggVars

\* first loop: filter the fixture's URLs and extend groups[title]["streams"]
AggGroup ==
    /\ aggPc = "group"
    /\ aggIn # << >>
    /\ Head(aggIn).m3u8 # NoUrl
    /\ LET m       == Head(aggIn)
           streams == ValidStreams(m.m3u8)
           k       == GroupIndex(groups, m.title)
       IN  groups' = IF k = 0
                     THEN Append(groups, [ title |-> m.title, streams |-> streams ])
                     ELSE [groups EXCEPT ![k].streams = @ \o streams]
    /\ aggIn' = Tail(aggIn)
    /\ UNCHANGED << aggPc, result, aggAll >>
    /\ UNCHANGED notAggVars

\* the first loop ends
AggGrouped ==
    /\ aggPc = "group"
    /\ aggIn = << >>
    /\ aggPc' = "emit"
    /\ UNCHANGED << aggIn, groups, result, aggAll >>
    /\ UNCHANGED notAggVars

\* second loop: "if " v " not in title: continue"
AggDrop ==
    /\ aggPc = "emit"
    /\ groups # << >>
    /\ ~Contains(Head(groups).title, VSep)
    /\ groups' = Tail(groups)
    /\ UNCHANGED << aggPc, aggIn, result, aggAll >>
    /\ UNCHANGED notAggVars

\* second loop: result.append({...})
AggEmit ==
    /\ aggPc = "emit"
    /\ groups # << >>
    /\ Contains(Head(groups).title, VSep)
    /\ LET g == Head(groups)
           k == FindFirst(g.title, VSep)
       IN  \E home \in { Strip(SubSeq(g.title, 1, k - 1)) } :
           \E away \in { Strip(SubSeq(g.title, k + Len(VSep), Len(g.title))) } :
           \E h \in { find_logo_url(home, logos, manual_logos, missing_teams) } :
           \E a \in { find_logo_url(away, logos, manual_logos, h.missing) } :
               /\ result' = Append(result,
                                [ title       |-> g.title,
                                  home        |-> home,
                                  home_logo   |-> h.url,
                                  away        |-> away,
                                  away_logo   |-> a.url,
                                  stream_urls |-> g.streams ])
               /\ missing_teams' = a.missing
    /\ groups' = Tail(groups)
    /\ UNCHANGED << aggPc, aggIn, aggAll >>
    /\ UNCHANGED << logoPc, team_name, logos, manual_logos, logoOut >>
    /\ UNCHANGED << mainVars, fileVars, listVars, resolveVars, siteVars >>

\* "return result"
AggReturn ==
    /\ aggPc = "emit"
    /\ groups = << >>
    /\ aggPc' = "done"
    /\ UNCHANGED << aggIn, groups, result, aggAll >>
    /\ UNCHANGED notAggVars

InitAggCall ==
    /\ aggPc = "group"
    /\ aggIn \in AggInputs
    /\ aggAll = aggIn
    /\ groups = << >>
    /\ result = << >>

\* the arguments logos and manual_logos, and "missing_teams = set()"
InitAggArgs ==
    /\ logoPc = "idle"
    /\ team_name = << >>
    /\ logos \in AggCatalogs
    /\ manual_logos \in AggManuals
    /\ missing_teams = {}
    /\ logoOut = NoLogo

NextAgg ==
    \/ AggSkip
    \/ AggGroup
    \/ AggGrouped
    \/ AggDrop
    \/ AggEmit
    \/ AggReturn

InitAggSpec ==
    InitMain /\ InitAggCall /\ InitFile /\ InitAggArgs /\ InitListIdle /\ InitResolveIdle

SpecAgg == InitAggSpec /\ [][NextAgg]_vars

-----------------------------------------------------------------------------
(* src/scraper.py: normalize_url, find_matches_from_html *)

BASE == << "h", "t", "t", "p", "s", ":", "/", "/", "h", "o", "o", "f", "o", "o", "t", ".", "c", "o", "m", "/" >>

BaseOrigin == SubSeq(BASE, 1, Len(BASE) - 1)

\* the value urljoin raises ValueError in place of
UrlError == << "ValueError" >>

\* the part of s before the first "/" at or after position i
RECURSIVE UpToSlash(_, _)
UpToSlash(s, i) ==
    IF i > Len(s) \/ s[i] = "/" THEN << >> ELSE << s[i] >> \o UpToSlash(s, i + 1)

\* urlsplit rejects a network location with an unbalanced bracket
BadNetloc(s, from) ==
    LET loc == UpToSlash(s, from)
    IN  Contains(loc, << "[" >>) # Contains(loc, << "]" >>)

\* urllib.parse.urljoin(BASE, url) for the reference shapes of a page
urljoin(base, url) ==
    IF url = << >> THEN base
    ELSE IF StartsWith(url, << "h", "t", "t", "p", "s", ":", "/", "/" >>)
         THEN IF BadNetloc(url, 9) THEN UrlError ELSE url
    ELSE IF StartsWith(url, << "h", "t", "t", "p", ":", "/", "/" >>)
         THEN IF BadNetloc(url, 8) THEN UrlError ELSE url
    ELSE IF StartsWith(url, << "/", "/" >>)
         THEN IF BadNetloc(url, 3) THEN UrlError ELSE << "h", "t", "t", "p", "s", ":" >> \o url
    ELSE IF StartsWith(url, << "/" >>) THEN BaseOrigin \o url
    ELSE base \o url

normalize_url(src) ==
    IF src = << >> THEN << >>
    ELSE LET s == Strip(src)
         IN  IF StartsWith(s, << "/", "/" >>) THEN << "h", "t", "t", "p", "s", ":" >> \o s
             ELSE IF StartsWith(s, << "/" >>) THEN urljoin(BASE, s)
             ELSE IF ~StartsWith(s, << "h", "t", "t", "p" >>) THEN urljoin(BASE, s)
             ELSE s

\* the part of s after the last occurrence of sep (s itself without one)
RECURSIVE AfterLast(_, _)
AfterLast(s, sep) ==
    LET i == FindFirst(s, sep)
    IN  IF i = 0 THEN s ELSE AfterLast(SubSeq(s, i + Len(sep), Len(s)), sep)

\* str.replace(old, new)
RECURSIVE Replace(_, _, _)
Replace(s, old, new) ==
    LET i == FindFirst(s, old)
    IN  IF i = 0 THEN s
        ELSE SubSeq(s, 1, i - 1) \o new \o Replace(SubSeq(s, i + Len(old), Len(s)), old, new)

\* the league name find_matches_from_html derives from the src of the info image
LeagueOf(src) ==
    Replace(Replace(AfterLast(src, << "/", "x", "/" >>), << ".", "j", "p", "g" >>, << >>), << "_" >>, << " " >>)

\* A container is what find_matches_from_html reads of a <div id="port...">:
\*   h2     the text of its first <h2>, as a list of zero or one string
\*   a      the href of its first <a href>, likewise
\*   img    the src of its first <img src>, likewise
\*   info   its <div class="info">, likewise: the text of its first <span>
\*          and the src of its first <img src>
ContainerPool == {
    [ h2 |-> << << "A", " ", "v", " ", "B" >> >>,
      a |-> << << "/", "/", "h", ".", "c", "o", "/", "?", "m", "a", "t", "c", "h", "=", "1" >> >>,
      img |-> << << "/", "/", "h", ".", "c", "o", "/", "i", ".", "j", "p", "g" >> >>,
      info |-> << [ span |-> << << " ", "3", " ", "M", "a", "y", " " >> >>, img |-> << << "/", "x", "/", "l", "a", "_", "l", "i", "g", "a", ".", "j", "p", "g" >> >> ] >> ],
    [ h2 |-> << << " ", "A", " ", "v", " ", "B", " " >> >>,
      a |-> << << "/", "?", "m", "a", "t", "c", "h", "=", "2" >> >>,
      img |-> << >>,
      info |-> << [ span |-> << << "3", " ", "M", "a", "y" >> >>, img |-> << >> ] >> ],
    [ h2 |-> << << "A", " ", "v", " ", "B" >> >>,
      a |-> << << "?", "m", "a", "t", "c", "h", "=", "3" >> >>,
      img |-> << >>,
      info |-> << >> ],
    [ h2 |-> << << "C", " ", "v", " ", "D" >> >>,
      a |-> << << "h", "t", "t", "p", "s", ":", "/", "/", "h", ".", "c", "o", "/", "?", "m", "a", "t", "c", "h", "=", "4" >> >>,
      img |-> << << "/", "i", ".", "j", "p", "g" >> >>,
      info |-> << [ span |-> << >>, img |-> << << "/", "i", "/", "y", ".", "j", "p", "g" >> >> ] >> ],
    [ h2 |-> << << "C", " ", "v", " ", "D" >> >>,
      a |-> << << "h", "t", "t", "p", ":", "/", "/", "h", ".", "c", "o", "/", "?", "m", "a", "t", "c", "h", "=", "5" >> >>,
      img |-> << >>,
      info |-> << >> ],
    [ h2 |-> << << "C", " ", "v", " ", "D" >> >>,
      a |-> << << " ", "/", "?", "m", "a", "t", "c", "h", "=", "6", " " >> >>,
      img |-> << >>,
      info |-> << >> ],
    [ h2 |-> << << "A", " ", "v", " ", "B" >> >>,
      a |-> << << "/", "a", "b", "o", "u", "t" >> >>,
      img |-> << >>,
      info |-> << >> ],
    [ h2 |-> << << "A", " ", "v", " ", "B" >> >>,
      a |-> << >>,
      img |-> << >>,
      info |-> << >> ],
    [ h2 |-> << >>,
      a |-> << << "/", "?", "m", "a", "t", "c", "h", "=", "2" >> >>,
      img |-> << >>,
      info |-> << >> ],
    [ h2 |-> << << >> >>,
      a |-> << << "/", "?", "m", "a", "t", "c", "h", "=", "7" >> >>,
      img |-> << >>,
      info |-> << >> ],
    [ h2 |-> << << " ", " " >> >>,
      a |-> << << "/", "/", "h", ".", "c", "o", "/", "?", "m", "a", "t", "c", "h", "=", "8" >> >>,
      img |-> << >>,
      info |-> << >> ]
}

Listings == SeqsUpTo(ContainerPool, MaxContainers)

\* the dictionary appended for a container
Candidate(c) ==
    [ title  |-> Strip(c.h2[1]),
      url    |-> normalize_url(c.a[1]),
      image  |-> IF c.img # << >> THEN normalize_url(c.img[1]) ELSE << >>,
      date   |-> IF c.info # << >> /\ c.info[1].span # << >>
                 THEN Strip(c.info[1].span[1]) ELSE << >>,
      league |-> IF c.info # << >> /\ c.info[1].img # << >>
                        /\ Contains(c.info[1].img[1], << "/", "x", "/" >>)
                 THEN LeagueOf(c.info[1].img[1]) ELSE << >> ]

\* "if not title_el: continue"
ListNoTitle ==
    /\ listPc = "scan"
    /\ containers # << >>
    /\ Head(containers).h2 = << >>
    /\ containers' = Tail(containers)
    /\ UNCHANGED << listPc, found >>
    /\ UNCHANGED notListVars

\* "if not link_el or "match=" not in link_el["href"]: continue"
ListNoLink ==
    /\ listPc = "scan"
    /\ containers # << >>
    /\ Head(containers).h2 # << >>
    /\ \/ Head(containers).a = << >>
       \/ /\ Head(containers).a # << >>
          /\ ~Contains(Head(containers).a[1], << "m", "a", "t", "c", "h", "=" >>)
    /\ containers' = Tail(containers)
    /\ UNCHANGED << listPc, found >>
    /\ UNCHANGED notListVars

\* matches.append({...})
ListAppend ==
    /\ listPc = "scan"
    /\ containers # << >>
    /\ Head(containers).h2 # << >>
    /\ Head(containers).a # << >>
    /\ Contains(Head(containers).a[1], << "m", "a", "t", "c", "h", "=" >>)
    /\ found' = Append(found, Candidate(Head(containers)))
    /\ containers' = Tail(containers)
    /\ UNCHANGED listPc
    /\ UNCHANGED notListVars

\* return matches
ListReturn ==
    /\ listPc = "scan"
    /\ containers = << >>
    /\ listPc' = "done"
    /\ UNCHANGED << containers, found >>
    /\ UNCHANGED notListVars

InitListCall ==
    /\ listPc = "scan"
    /\ containers \in Listings
    /\ found = << >>

NextList ==
    \/ ListNoTitle
    \/ ListNoLink
    \/ ListAppend
    \/ ListReturn

InitListSpec ==
    InitMain /\ InitAgg /\ InitFile /\ InitLogoIdle /\ InitListCall /\ InitResolveIdle

SpecList == InitListSpec /\ [][NextList]_vars

-----------------------------------------------------------------------------
(* src/scraper.py: extract_embed_url, extract_m3u8_from_embed, extract_score,
   process_match *)

\* A detail page is what process_match reads of it:
\*   score    the two numbers of the inline score assignment, when present
\*   player   the href of the first link inside <div id="player">, as a list
\*            of zero or one string
\*   anchors  the hrefs of all <a href> of the page, in document order
DetailPool == {
    [ empty |-> FALSE, score |-> << 2, 1 >>,
      player |-> << << "/", "e", "m", "b", "e", "d", "/", "1" >> >>,
      anchors |-> << >> ],
    [ empty |-> FALSE, score |-> << >>,
      player |-> << >>,
      anchors |-> << << "/", "a", "b", "o", "u", "t" >>,
                   << "/", "/", "e", ".", "c", "o", "/", "e", "m", "b", "e", "d", "/", "2" >> >> ],
    [ empty |-> FALSE, score |-> << 0, 0 >>,
      player |-> << >>,
      anchors |-> << << "/", "a", "b", "o", "u", "t" >> >> ],
    [ empty |-> FALSE, score |-> << 1, 1 >>,
      player |-> << << "/", "/", "[", "e", "/", "e", "m", "b", "e", "d" >> >>,
      anchors |-> << >> ],
    [ empty |-> FALSE, score |-> << >>,
      player |-> << >>,
      anchors |-> << >> ],
    [ empty |-> FALSE, score |-> << 2, 1 >>,
      player |-> << >>,
      anchors |-> << << "h", "t", "t", "p", "s", ":", "/", "/", "s", "p", "o", "t", "l", "i", "g", "h", "t", "m", "o", "m", "e", "n", "t", ".", "i", "o", "/", "3" >> >> ]
}

\* An embed page is the list of its hls assignments in text order:
\* "<key>: { hls: '<url>' }"
StmtPool == {
    [ key |-> "src", url |-> << "h", "t", "t", "p", "s", ":", "/", "/", "c", "/", "a" >> ],
    [ key |-> "src", url |-> << "/", "/", "c", "/", "b" >> ],
    [ key |-> "src", url |-> << "h", "t", "t", "p", ":", "/", "/", "c", "/", "d" >> ],
    [ key |-> "backupSrc", url |-> << "h", "t", "t", "p", "s", ":", "/", "/", "c", "/", "e" >> ],
    [ key |-> "backupSrc", url |-> << "/", "/", "c", "/", "f" >> ],
    [ key |-> "backupSrc", url |-> << "h", "t", "t", "p", ":", "/", "/", "c", "/", "g" >> ],
    [ key |-> "src", url |-> << "/", "h" >> ]
}

EmbedPages == { [ empty |-> FALSE, stmts |-> q ] : q \in SeqsUpTo(StmtPool, MaxStmts) }

\* the outcomes of fetch(): an exception, "" or the page
DetailFetches ==
    { [ raises |-> TRUE, html |-> NoPage ], [ raises |-> FALSE, html |-> NoPage ] }
        \cup { [ raises |-> FALSE, html |-> d ] : d \in DetailPool }

EmbedFetches ==
    { [ raises |-> TRUE, html |-> NoEmbedPage ], [ raises |-> FALSE, html |-> NoEmbedPage ] }
        \cup { [ raises |-> FALSE, html |-> e ] : e \in EmbedPages }

\* candidates as find_matches_from_html returns them
MatchPool == {
    [ title |-> << "A", " ", "v", " ", "B" >>, url |-> << "h", "t", "t", "p", "s", ":", "/", "/", "h", "o", "o", "f", "o", "o", "t", ".", "c", "o", "m", "/", "?", "m", "a", "t", "c", "h", "=", "2" >>,
      image |-> << >>, date |-> << >>, league |-> << >> ],
    [ title |-> << "C", " ", "v", " ", "D" >>, url |-> << "h", "t", "t", "p", ":", "/", "/", "h", ".", "c", "o", "/", "?", "m", "a", "t", "c", "h", "=", "5" >>,
      image |-> << >>, date |-> << >>, league |-> << >> ]
}

\* extract_score: (None, None) without the score assignment
extract_score(page) ==
    IF page.score = << >> THEN << NoScore, NoScore >> ELSE page.score

IsEmbedHref(h) == Contains(h, << "e", "m", "b", "e", "d" >>) \/ Contains(h, << "s", "p", "o", "t", "l", "i", "g", "h", "t", "m", "o", "m", "e", "n", "t" >>)

\* extract_embed_url: the player's link, else the first link that names an
\* embed; << >> is None, UrlError an exception raised by urljoin
extract_embed_url(page) ==
    LET n == FirstOf({ i \in 1..Len(page.anchors) : IsEmbedHref(page.anchors[i]) })
    IN  IF page.player # << >> THEN urljoin(BASE, page.player[1])
        ELSE IF n # 0 THEN urljoin(BASE, page.anchors[n])
        ELSE << >>

\* the four patterns of extract_m3u8_from_embed, in the order of the list
Patterns == <<
    [ key |-> "src",       add_https |-> FALSE ],
    [ key |-> "src",       add_https |-> TRUE ],
    [ key |-> "backupSrc", add_https |-> FALSE ],
    [ key |-> "backupSrc", add_https |-> TRUE ]
>>

\* the pattern matches at this assignment
PatMatches(p, st) ==
    /\ st.key = p.key
    /\ IF p.add_https
       THEN StartsWith(st.url, << "/", "/" >>) /\ Len(st.url) > 2
       ELSE \/ StartsWith(st.url, << "h", "t", "t", "p", "s", ":", "/", "/" >>) /\ Len(st.url) > 8
            \/ StartsWith(st.url, << "h", "t", "t", "p", ":", "/", "/" >>) /\ Len(st.url) > 7

\* match.group(1)
PatGroup(p, st) == IF p.add_https THEN SubSeq(st.url, 3, Len(st.url)) ELSE st.url

\* str.replace(old, new, 1)
ReplaceFirst(s, old, new) ==
    LET i == FindFirst(s, old)
    IN  IF i = 0 THEN s
        ELSE SubSeq(s, 1, i - 1) \o new \o SubSeq(s, i + Len(old), Len(s))

\* the body of "if match:"
Coerce(p, g) ==
    LET u == IF p.add_https THEN << "h", "t", "t", "p", "s", ":" >> \o g ELSE g
    IN  IF ~StartsWith(u, << "h", "t", "t", "p", "s", ":", "/", "/" >>) THEN ReplaceFirst(u, << "h", "t", "t", "p", "s", ":" >>, << "h", "t", "t", "p", "s", ":", "/", "/" >>) ELSE u

\* re.search: the first assignment of the page the pattern matches (0: none)
PatSearch(p, stmts) == FirstOf({ i \in 1..Len(stmts) : PatMatches(p, stmts[i]) })

RECURSIVE ExtractFrom(_, _)
ExtractFrom(k, stmts) ==
    IF k > Len(Patterns) THEN << >>
    ELSE LET n == PatSearch(Patterns[k], stmts)
         IN  (IF n # 0 THEN << Coerce(Patterns[k], PatGroup(Patterns[k], stmts[n])) >> ELSE << >>)
                 \o ExtractFrom(k + 1, stmts)

\* the list urls, or NoUrl for None
extract_m3u8_from_embed(page) == ExtractFrom(1, page.stmts)

\* {**match, "embed": e, "m3u8": m, "home_score": h, "away_score": a}
Resolved(m, e, u, h, a) ==
    [ title |-> m.title, url |-> m.url, image |-> m.image, date |-> m.date,
      league |-> m.league, embed |-> e, m3u8 |-> u, home_score |-> h, away_score |-> a ]

PmLocals == << m_html, home_score, away_score, embed >>

\* m_html = fetch(match["url"]) raises
PmDetailRaises ==
    /\ pmPc = "fetch_detail"
    /\ net.detail.raises
    /\ pmPc' = "except"
    /\ UNCHANGED << match, net, PmLocals, pmOut >>
    /\ UNCHANGED notResolveVars

\* "if not m_html: return {...}"
PmDetailEmpty ==
    /\ pmPc = "fetch_detail"
    /\ ~net.detail.raises
    /\ net.detail.html.empty
    /\ m_html' = net.detail.html
    /\ pmOut' = Resolved(match, << >>, NoUrl, NoScore, NoScore)
    /\ pmPc' = "done"
    /\ UNCHANGED << match, net, home_score, away_score, embed >>
    /\ UNCHANGED notResolveVars

PmDetailOk ==
    /\ pmPc = "fetch_detail"
    /\ ~net.detail.raises
    /\ ~net.detail.html.empty
    /\ m_html' = net.detail.html
    /\ pmPc' = "score"
    /\ UNCHANGED << match, net, home_score, away_score, embed, pmOut >>
    /\ UNCHANGED notResolveVars

\* home_score, away_score = extract_score(m_html)
PmScore ==
    /\ pmPc = "score"
    /\ home_score' = extract_score(m_html)[1]
    /\ away_score' = extract_score(m_html)[2]
    /\ pmPc' = "embed"
    /\ UNCHANGED << match, net, m_html, embed, pmOut >>
    /\ UNCHANGED notResolveVars

\* embed = extract_embed_url(m_html) raises
PmEmbedRaises ==
    /\ pmPc = "embed"
    /\ extract_embed_url(m_html) = UrlError
    /\ pmPc' = "except"
    /\ UNCHANGED << match, net, PmLocals, pmOut >>
    /\ UNCHANGED notResolveVars

\* "if not embed: return {...}"
PmNoEmbed ==
    /\ pmPc = "embed"
    /\ extract_embed_url(m_html) = << >>
    /\ pmOut' = Resolved(match, << >>, NoUrl, home_score, away_score)
    /\ pmPc' = "done"
    /\ UNCHANGED << match, net, PmLocals >>
    /\ UNCHANGED notResolveVars

PmEmbedFound ==
    /\ pmPc = "embed"
    /\ extract_embed_url(m_html) \notin { << >>, UrlError }
    /\ embed' = extract_embed_url(m_html)
    /\ pmPc' = "fetch_embed"
    /\ UNCHANGED << match, net, m_html, home_score, away_score, pmOut >>
    /\ UNCHANGED notResolveVars

\* embed_html = fetch(embed) raises
PmFetchEmbedRaises ==
    /\ pmPc = "fetch_embed"
    /\ net.embed.raises
    /\ pmPc' = "except"
    /\ UNCHANGED << match, net, PmLocals, pmOut >>
    /\ UNCHANGED notResolveVars

\* embed_html = fetch(embed); m3u8_urls = extract_m3u8_from_embed(embed_html);
\* return {...}
PmReturn ==
    /\ pmPc = "fetch_embed"
    /\ ~net.embed.raises
    /\ pmOut' = Resolved(match, embed, extract_m3u8_from_embed(net.embed.html),
                         home_score, away_score)
    /\ pmPc' = "done"
    /\ UNCHANGED << match, net, PmLocals >>
    /\ UNCHANGED notResolveVars

\* "except Exception: return {...}"
PmExcept ==
    /\ pmPc = "except"
    /\ pmOut' = Resolved(match, << >>, NoUrl, NoScore, NoScore)
    /\ pmPc' = "done"
    /\ UNCHANGED << match, net, PmLocals >>
    /\ UNCHANGED notResolveVars

InitResolveCall ==
    /\ pmPc = "fetch_detail"
    /\ match \in MatchPool
    /\ net \in [ detail : DetailFetches, embed : EmbedFetches ]
    /\ m_html = NoPage
    /\ home_score = NoScore
    /\ away_score = NoScore
    /\ embed = << >>
    /\ pmOut = NoResolved

NextResolve ==
    \/ PmDetailRaises
    \/ PmDetailEmpty
    \/ PmDetailOk
    \/ PmScore
    \/ PmEmbedRaises
    \/ PmNoEmbed
    \/ PmEmbedFound
    \/ PmFetchEmbedRaises
    \/ PmReturn
    \/ PmExcept

InitResolveSpec ==
    InitMain /\ InitAgg /\ InitFile /\ InitLogoIdle /\ InitListIdle /\ InitResolveCall

SpecResolve == InitResolveSpec /\ [][NextResolve]_vars

-----------------------------------------------------------------------------
(* Predicates on a refresh pass *)

\* t has passed the in-flight test of run_scraping_job and has not returned
InPass(t) == pc[t] \in PassLabels

\* t is in a pass and has executed "cache.is_updating = True"
HasSetFlag(t) == pc[t] \in PassLabels \ { "setflag" }

\* t is in the fetch/resolve phase of a pass
Fetching(t) == pc[t] \in { "fetch", "list", "resolve" }

\* t is past the fetch/resolve phase of a pass and holds no stream of any fixture
ObtainedNone(t) ==
    /\ InPass(t)
    /\ ~Fetching(t)
    /\ pc[t] # "setflag"
    /\ \A i \in DOMAIN matches_data[t] : matches_data[t][i].m3u8 = NoUrl

\* this step is taken by thread t
StepOf(t) == pc'[t] # pc[t]

-----------------------------------------------------------------------------
(* Claims about the in-memory controller, checked under Spec *)

\* C1: single-flight refresh: of two callers of run_scraping_job that start
\* while no refresh is in flight only one proceeds, so at most one refresh
\* pass is executing in any reachable state.
C1_SingleFlight == Cardinality({ t \in Threads : InPass(t) }) <= 1

\* C2: a pass that obtains no fixtures (no candidates listed, or no stream
\* resolved for any candidate) aborts: none of its steps changes the cache's
\* records or lastUpdated, and the in-flight flag is clear when it returns.
C2_NoFixturesAborts ==
    [][ \A t \in Threads :
          (ObtainedNone(t) /\ StepOf(t)) =>
              /\ data' = data
              /\ last_updated' = last_updated
              /\ (pc'[t] = Home(t) => ~is_updating') ]_vars

\* C3: /matches answers 503 only while no commit has ever happened: a request
\* that begins after some pass has committed is never answered 503.
C3_NoOutageAfterCommit == (rpc = "idle" /\ resp = 503) => ~reqLate

\* C4: the snapshot MatchCache.get returns pairs the records with the
\* lastUpdated stamp written by the same commit.
C4_SnapshotFromOneCommit ==
    rpc \in { "g_unlock", "respond" } => snap.dataCall = snap.stampCall

\* C4 witness: a get has returned the records and stamp of the second
\* commit of the behaviour.
C4_Witness ==
    /\ rpc = "respond"
    /\ snap.matches # << >>
    /\ snap.dataCall = 2
    /\ snap.stampCall = 2

\* C6: while a pass that has set the in-flight flag is in progress, no other
\* caller passes the in-flight test, and no commit other than that pass's own
\* replaces the cache.
C6_RejectedWhileInFlight ==
    [][ \A t \in Threads : HasSetFlag(t) =>
          \A u \in Threads \ { t } :
              /\ ~(pc[u] = "check" /\ pc'[u] = "setflag")
              /\ ~(pc[u] = "set_data" /\ pc'[u] = "set_stamp") ]_vars

\* C7: MatchCache.get never waits for an in-flight refresh: the lock is only
\* ever held inside the critical section of set (or of get), never by a
\* thread in its fetch/resolve phase, and a get that holds the lock has read
\* the records and lastUpdated that are committed at that moment.
C7_GetNeverWaitsForRefresh ==
    /\ \A t \in Threads :
          lock = t => pc[t] \in { "set_data", "set_stamp", "set_clear", "set_unlock" }
    /\ rpc = "g_unlock" =>
          /\ snap.matches = data
          /\ snap.last_updated = last_updated

\* C7 witness: the cache is populated, a pass is in its fetch/resolve phase
\* with the flag set, and a get has completed its reads with the committed
\* records.
C7_Witness ==
    /\ rpc = "g_unlock"
    /\ is_updating
    /\ \E t \in Threads : Fetching(t)
    /\ data # << >>
    /\ snap.matches = data
    /\ snap.last_updated = last_updated

\* C8: the in-flight flag never remains set after the pass that set it has
\* ended: whenever the flag is set, some pass that has set it is still on its
\* way to the statement that clears it.
C8_FlagClearedOnEveryExit ==
    is_updating =>
        \E t \in Threads :
            pc[t] \in { "fetch", "list", "resolve", "set_lock", "set_data",
                        "set_stamp", "set_clear", "abort" }

\* C8 witness: the first pass has ended without committing and the flag is clear.
C8_Witness ==
    /\ calls = 1
    /\ \A t \in Threads : pc[t] = Home(t)
    /\ last_updated = 0
    /\ ~is_updating

\* C9: a pass that fails leaves lastUpdated unchanged, so a stale cache stays
\* stale; the scheduler's staleness check then calls run_scraping_job, and
\* the scheduler calls it only when is_stale holds (apart from startup).
C9_FailedPassKeepsStale ==
    [][ /\ \A t \in Threads :
              (ObtainedNone(t) /\ StepOf(t)) =>
                  /\ last_updated' = last_updated
                  /\ (is_stale => is_stale')
        /\ (pc[Sched] = "sleep" /\ pc'[Sched] = "check") => is_stale
        /\ (pc[Sched] = "sleep" /\ wakeAt' # wakeAt /\ is_stale) => pc'[Sched] = "check"
      ]_vars


\* t is executing a pass: it has set the in-flight flag and has reached
\* neither the statement of cache.set that clears it nor a return
Executing(t) ==
    pc[t] \in { "fetch", "list", "resolve", "set_lock", "set_data",
                "set_stamp", "set_clear", "abort" }

\* C22: the in-flight flag is set in every state in which a refresh pass is
\* executing, between its start and its commit or abort, under any
\* interleaving of scheduler ticks, /refresh requests and pass completions;
\* /health, which reports the flag, and /refresh, which tests it, then never
\* report that no refresh is running while one is.
C22_FlagSetWhileExecuting ==
    \A t \in Threads : Executing(t) => is_updating

\* the cache is populated: non-empty records and lastUpdated set
Populated == data # << >> /\ last_updated # 0

\* no pass is under way, run_scraping_job can still be called, and the
\* scheduler is about to make its first call or has a staleness check ahead
\* of it at which the cache is stale
PassAhead ==
    /\ calls < MaxCalls
    /\ \A w \in Workers : pc[w] = "idle"
    /\ \/ pc[Sched] = "boot"
       \/ /\ pc[Sched] = "sleep"
          /\ \E k \in 0..MaxSteps :
                LET n == now + k * TimeStep
                IN  /\ n <= EndTime
                    /\ n >= wakeAt
                    /\ (n - last_updated) > CACHE_DURATION

-----------------------------------------------------------------------------
(* Claims about the aggregator, checked under SpecAgg *)

\* some record of result comes from the group of this title
Emitted(title) == \E i \in 1..Len(result) : result[i].title = title

\* some fixture passed in under this title has a URL containing the marker
HasMarkerStream(title) ==
    \E i \in 1..Len(aggAll) :
        /\ aggAll[i].title = title
        /\ \E j \in 1..Len(aggAll[i].m3u8) : Contains(aggAll[i].m3u8[j], Marker)

\* C5: a record is emitted for a title if and only if the title contains
\* " v " and some stream URL of a fixture with that title contains the
\* manifest-path marker; no emitted record has an empty stream_urls list.
C5_EmittedIffValid ==
    aggPc = "done" =>
        /\ \A ti \in AggTitles :
              Emitted(ti) <=> (Contains(ti, VSep) /\ HasMarkerStream(ti))
        /\ \A i \in 1..Len(result) : result[i].stream_urls # << >>

\* the published form of a resolved URL: the part before "|", stripped,
\* with the referer suffix
Published(u) == Strip(BeforeBar(u)) \o Referer

\* the published forms of the URLs of one fixture that hold the marker
PublishedOf(us) ==
    LET kept == SelectSeq(us, LAMBDA u : Contains(Strip(BeforeBar(u)), Marker))
    IN  [ i \in 1..Len(kept) |-> Published(kept[i]) ]

\* those of all fixtures of fs that carry this title, in the order of fs
RECURSIVE StreamsOfTitle(_, _)
StreamsOfTitle(fs, title) ==
    IF fs = << >> THEN << >>
    ELSE (IF Head(fs).title = title THEN PublishedOf(Head(fs).m3u8) ELSE << >>)
             \o StreamsOfTitle(Tail(fs), title)

Bars(u) == Cardinality({ i \in 1..Len(u) : u[i] = "|" })

\* C20: every stream URL of every emitted record contains the manifest-path
\* marker and ends with the referer suffix, which is its only "|" parameter
\* also when the resolved URL carried one, and it is the published form of a
\* resolved URL holding the marker.
C20_MarkerAndOneReferer ==
    aggPc = "done" =>
        \A i \in 1..Len(result) : \A j \in 1..Len(result[i].stream_urls) :
            LET u == result[i].stream_urls[j]
            IN  /\ Contains(u, Marker)
                /\ EndsWith(u, Referer)
                /\ Bars(u) = 1
                /\ \E f \in 1..Len(aggAll) : \E k \in 1..Len(aggAll[f].m3u8) :
                      /\ aggAll[f].title = result[i].title
                      /\ Contains(BeforeBar(aggAll[f].m3u8[k]), Marker)
                      /\ u = Published(aggAll[f].m3u8[k])

\* a fixture whose URLs are one with a "|" parameter and one without the
\* marker is published with the first URL only, its parameter replaced
C20_Witness ==
    /\ aggPc = "done"
    /\ Len(aggAll) = 1
    /\ aggAll[1].title = TitleAB
    /\ aggAll[1].m3u8 = << UrlParam, UrlAlt >>
    /\ Len(result) = 1
    /\ result[1].stream_urls = << << "h", "M" >> \o Referer >>

\* no stage of the cascade matches this team name: no manual override for
\* the name or its alias target, no filename and no search key hit, and no
\* close match
NoStageMatches(team) ==
    LET raw        == normalize_string(team)
        ai         == AliasIndex(raw)
        target     == IF ai # 0 THEN normalize_string(KNOWN_ALIASES[ai][2]) ELSE raw
        core       == get_core_name(target)
        candidates == [ i \in 1..Len(logos) |-> logos[i].search_key ]
    IN  /\ raw \notin DOMAIN manual_logos
        /\ target \notin DOMAIN manual_logos
        /\ \A i \in 1..Len(logos) :
              /\ logos[i].filename \notin { Hyphenate(target), Hyphenate(core) }
              /\ ~ScanHit(core, logos[i].search_key)
        /\ get_close_matches(target, candidates) = << >>
        /\ get_close_matches(core, candidates) = << >>

\* the team names looked up so far
LookedUp == UNION { { result[i].home, result[i].away } : i \in 1..Len(result) }

\* C21: a team name that no stage of the cascade matches gets the empty logo
\* URL and is added to the missing set as it was passed in, not normalized;
\* a lookup that some stage matches adds nothing to the missing set; and
\* every group whose title contains " v " is emitted as a record whether or
\* not its logos were resolved.
C21_MissRecordedAndEmitted ==
    /\ \A i \in 1..Len(result) :
          /\ NoStageMatches(result[i].home) =>
                result[i].home_logo = "" /\ result[i].home \in missing_teams
          /\ NoStageMatches(result[i].away) =>
                result[i].away_logo = "" /\ result[i].away \in missing_teams
    /\ missing_teams = { t \in LookedUp : NoStageMatches(t) }
    /\ aggPc = "done" =>
          \A f \in 1..Len(aggAll) :
              (aggAll[f].m3u8 # NoUrl /\ Contains(aggAll[f].title, VSep))
                  => Emitted(aggAll[f].title)

\* "Inter v PSV" against a catalog holding inter: the home side is resolved
\* and leaves the missing set alone, the away side is not, and the record is
\* emitted with an empty away logo
C21_Witness ==
    /\ aggPc = "done"
    /\ logos # << >>
    /\ \E i \in 1..Len(result) :
          /\ result[i].title = TitleClubs
          /\ result[i].home_logo = "logo:inter"
          /\ result[i].away_logo = ""
    /\ missing_teams = { << "P", "S", "V" >> }

-----------------------------------------------------------------------------
(* Claims about the file-backed variant, checked under SpecFile *)

\* C10: once a pass has written the cache file, every /matches request is
\* answered with records (never 503) until the next pass replaces them,
\* also while that next pass is running.
C10_StaleServedDuringRefresh == freqLate => fresp.status = 200

\* C15: the cache file is replaced atomically for readers: once a pass has
\* written it, the file get_cached_matches opens, in whichever state of
\* run_scraping_job the request arrives, holds a complete payload (the
\* previous one or the new one), never a truncated or partly written one.
C15_FileReplacedAtomically == fwritten => (file.exists /\ file.complete)

-----------------------------------------------------------------------------
(* Claims about the logo resolver, checked under SpecLogo *)

\* the call of find_logo_url has returned
LogoDone == logoPc = "done"

\* team_name is a key of KNOWN_ALIASES
IsAliasKey == \E i \in 1..Len(KNOWN_ALIASES) : team_name = KNOWN_ALIASES[i][1]

\* the URL find_logo_url returns for the canonical full name of the alias
\* key team_name, with the same catalog and the same manual overrides
CanonicalUrl ==
    LET i == CHOOSE k \in 1..Len(KNOWN_ALIASES) : team_name = KNOWN_ALIASES[k][1]
    IN  find_logo_url(KNOWN_ALIASES[i][2], logos, manual_logos, {}).url

\* C11: when the normalized team name is a key of the manual override
\* mapping, find_logo_url returns that key's URL, whatever the catalog holds
\* and whether or not the name is also an alias key, and the missing set
\* stays as it was.
C11_ManualOverrideFirst ==
    (LogoDone /\ normalize_string(team_name) \in DOMAIN manual_logos) =>
        /\ logoOut.url = manual_logos[normalize_string(team_name)]
        /\ missing_teams = {}

\* "ATM" is an alias key and a manual key, its canonical name is a manual key
\* too, and the catalog is not empty
C11_Witness ==
    /\ LogoDone
    /\ team_name = << "a", "t", "m" >>
    /\ DOMAIN manual_logos = DOMAIN ManualPool
    /\ logos # << >>
    /\ logoOut.url = "manual:atm"
    /\ logoOut.stage = "manual"

\* C12 as stated: for every alias key, every catalog and every manual
\* mapping, find_logo_url on the key returns the URL it returns on the key's
\* canonical full name.
C12_AliasSameAsCanonical ==
    (LogoDone /\ IsAliasKey) => logoOut.url = CanonicalUrl

\* C12 amended: the key and its canonical name resolve to the same URL
\* provided the normalized key is not itself a key of the manual mapping.
C12_AliasSameUnlessOverridden ==
    (LogoDone /\ IsAliasKey /\ normalize_string(team_name) \notin DOMAIN manual_logos) =>
        logoOut.url = CanonicalUrl

\* an alias key resolved through its canonical name to a catalog entry
C12_Witness ==
    /\ LogoDone
    /\ IsAliasKey
    /\ normalize_string(team_name) \notin DOMAIN manual_logos
    /\ logoOut.stage \in { "filename", "core_filename", "scan_exact", "scan_substring" }
    /\ logoOut.url = CanonicalUrl
    /\ normalize_string(team_name) # normalize_string(KNOWN_ALIASES[AliasIndex(team_name)][2])

\* target_search_name and team_core of the call
LogoTarget ==
    LET raw == normalize_string(team_name)
        ai  == AliasIndex(raw)
    IN  IF ai # 0 THEN normalize_string(KNOWN_ALIASES[ai][2]) ELSE raw

LogoCore == get_core_name(LogoTarget)

\* the call got as far as the scan of the search keys
ScanReached == logoOut.stage \in { "scan_exact", "scan_substring", "fuzzy", "fuzzy_core", "missing" }

\* the scan returned
ScanReturned == logoOut.stage \in { "scan_exact", "scan_substring" }

\* the catalog entry has the core name as its search key
ExactAt(core, i) == logos[i].search_key = core

\* C16: when the scan stage returns and some catalog entry's search key
\* equals the core name, the URL returned is that of such an entry; a
\* substring match is used only when no entry matches exactly.
C16_ExactBeatsSubstring ==
    LET core == LogoCore
    IN  (LogoDone /\ ScanReturned /\ \E i \in 1..Len(logos) : ExactAt(core, i)) =>
            /\ logoOut.stage = "scan_exact"
            /\ \E i \in 1..Len(logos) : ExactAt(core, i) /\ logoOut.url = logos[i].url

\* the core name is a substring of the search key of entry i
CoreInKey(core, i) == Contains(logos[i].search_key, core)

\* the search key of entry i is a substring of the core name
KeyInCore(core, i) == Contains(core, logos[i].search_key)

\* C17 as stated: with no exact match, a core name longer than 3 characters
\* makes an entry win when either is a substring of the other, and a core
\* name of 3 characters or fewer never wins by substring.
C17_SubstringEitherDirection ==
    LET core == LogoCore
        Related(i) == CoreInKey(core, i) \/ KeyInCore(core, i)
    IN  (LogoDone /\ ScanReached /\ ~\E i \in 1..Len(logos) : ExactAt(core, i)) =>
            /\ (Len(core) > 3 /\ \E i \in 1..Len(logos) : Related(i)) =>
                  \E i \in 1..Len(logos) : Related(i) /\ logoOut.url = logos[i].url
            /\ Len(core) <= 3 => logoOut.stage # "scan_substring"

\* C17 amended: with no exact match, a core name longer than 3 characters
\* makes an entry win exactly when the core name is a substring of its
\* search key; a search key that is a substring of the core name wins
\* nothing, and a core name of 3 characters or fewer never wins by substring.
C17_SubstringCoreInKey ==
    LET core == LogoCore
    IN  (LogoDone /\ ScanReached /\ ~\E i \in 1..Len(logos) : ExactAt(core, i)) =>
            /\ (Len(core) > 3 /\ \E i \in 1..Len(logos) : CoreInKey(core, i)) =>
                  logoOut.stage = "scan_substring"
            /\ logoOut.stage = "scan_substring" =>
                  /\ Len(core) > 3
                  /\ \E i \in 1..Len(logos) :
                        CoreInKey(core, i) /\ logoOut.url = logos[i].url

\* "Atletico" wins the entry "atletico madrid" by substring, past an entry
\* whose search key is not related to it
C17_Witness ==
    /\ LogoDone
    /\ team_name = << "A", "t", "l", "e", "t", "i", "c", "o" >>
    /\ Len(logos) = 2
    /\ ~CoreInKey(LogoCore, 1)
    /\ CoreInKey(LogoCore, 2)
    /\ logoOut.stage = "scan_substring"
    /\ logoOut.url = "logo:atletico-madrid"

-----------------------------------------------------------------------------
(* Claims about the fixture lister, checked under SpecList *)

\* a URL with scheme http or https and a network location
IsAbsoluteUrl(u) ==
    \/ StartsWith(u, << "h", "t", "t", "p", "s", ":", "/", "/" >>) /\ Len(u) > 8
    \/ StartsWith(u, << "h", "t", "t", "p", ":", "/", "/" >>) /\ Len(u) > 7

\* C14: every candidate find_matches_from_html returns has a non-empty
\* title and a scheme-qualified absolute detail URL, whichever of the four
\* shapes the href has.
C14_CandidatesWellFormed ==
    listPc = "done" =>
        \A i \in 1..Len(found) :
            /\ found[i].title # << >>
            /\ IsAbsoluteUrl(found[i].url)

-----------------------------------------------------------------------------
(* Claims about the stream resolver, checked under SpecResolve *)

\* the detail fetch, the embed fetch or a parse step of this call fails:
\* a fetch raises or returns "", or extract_embed_url raises
PmFailed ==
    \/ net.detail.raises
    \/ net.detail.html.empty
    \/ /\ ~net.detail.raises
       /\ ~net.detail.html.empty
       /\ LET e == extract_embed_url(net.detail.html)
          IN  \/ e = UrlError
              \/ /\ e # << >>
                 /\ e # UrlError
                 /\ (net.embed.raises \/ net.embed.html.empty)

\* C13: process_match ends by returning a fixture for its candidate under
\* every combination of fetch outcomes, and whenever the detail fetch, the
\* embed fetch or a parse step failed, that fixture has no stream URLs and
\* null home and away scores.
C13_FailureYieldsEmptyFixture ==
    /\ pmPc \in { "fetch_detail", "score", "embed", "fetch_embed", "except", "done" }
    /\ pmPc = "done" =>
          /\ pmOut.title = match.title
          /\ pmOut.url = match.url
          /\ PmFailed =>
                /\ pmOut.m3u8 = NoUrl
                /\ pmOut.home_score = NoScore
                /\ pmOut.away_score = NoScore

\* the part of a URL after its "//"
HostPath(u) == SubSeq(u, FindFirst(u, << "/", "/" >>) + 2, Len(u))

\* the patterns that match somewhere on the embed page, in list order
PatHits(stmts) ==
    SelectSeq(<< 1, 2, 3, 4 >>, LAMBDA k : PatSearch(Patterns[k], stmts) # 0)

\* C18: the list extract_m3u8_from_embed returns holds one URL for every
\* pattern that matches, in the order primary, protocol-relative primary,
\* backup, protocol-relative backup, and every URL of it begins with
\* "https://" whichever scheme form the page used.
C18_AllMatchesHttps ==
    (pmPc = "done" /\ pmOut.embed # << >>) =>
        LET stmts == net.embed.html.stmts
            hits  == PatHits(stmts)
        IN  /\ Len(pmOut.m3u8) = Len(hits)
            /\ \A j \in 1..Len(hits) :
                  /\ j <= Len(pmOut.m3u8)
                  /\ HostPath(pmOut.m3u8[j])
                        = HostPath(stmts[PatSearch(Patterns[hits[j]], stmts)].url)
            /\ \A j \in 1..Len(pmOut.m3u8) : StartsWith(pmOut.m3u8[j], << "h", "t", "t", "p", "s", ":", "/", "/" >>)

====
